---------------------------- MODULE Spec2Model ----------------------------
(***************************************************************************)
(* A model of the log processor of claude-insights                         *)
(* (src/processor/process_logs.py): format detection, the three            *)
(* normalizers, content extraction, the transactional session import, the  *)
(* usage-stats importer and the scan loop of process_all.                  *)
(***************************************************************************)
EXTENDS Integers, Sequences, FiniteSets, TLC

VARIABLES
    fs,          \* projects/**/*.jsonl: path -> file (NoFile when absent)
    statsFile,   \* stats-cache.json: a snapshot, or NoStats when absent
    historyFile, \* history.jsonl: its lines, or NoHistory when absent
    plansDir,    \* plans/*.md: name -> plan file (NoPlan when absent)
    todosDir,    \* todos/*.json: stem -> todo file (NoTodo when absent)
    aux,         \* history: what the auxiliary importers of the last scan did
    db,          \* the committed store (one record, a field per table)
    pc,          \* position of main / process_all: "idle", "scan"
    log_files,   \* process_all: the globbed candidate list of this scan
    idx,         \* process_all: index of the next candidate in log_files
    processed,   \* process_all: counter
    skipped,     \* process_all: counter
    errors,      \* process_all: counter
    scans,       \* number of scans started so far
    edits,       \* number of writes the environment has made so far
    clock,       \* datetime.now(), advanced once per scan
    trace,       \* history: what the current scan did to each file
    lastDone,    \* history: summary of the most recently ended scan
    pfile,       \* _parse_claude_code_log: the file being parsed
    ppc,         \* _parse_claude_code_log: position in the function
    applied,     \* _parse_claude_code_log: normalizers invoked, in order
    pout,        \* _parse_claude_code_log: the value returned
    xin,         \* _extract_content: the msg argument's content
    xpc,         \* _extract_content: position in the function
    xout         \* _extract_content: the string returned

vars == <<fs, statsFile, historyFile, plansDir, todosDir, aux, db, pc,
          log_files, idx, processed, skipped, errors,
          scans, edits, clock, trace, lastDone, pfile, ppc, applied, pout,
          xin, xpc, xout>>

auxVars == <<historyFile, plansDir, todosDir, aux>>
scanVars == <<fs, statsFile, auxVars, db, pc, log_files, idx, processed,
              skipped, errors, scans, edits, clock, trace, lastDone>>
parseVars == <<pfile, ppc, applied, pout>>
extractVars == <<xin, xpc, xout>>

----------------------------------------------------------------------------
(* Bounds of the model.                                                    *)

MaxScans == 2
MaxEdits == 2
MaxLines == 3
MaxMsgs == 2
MaxOver == 2

(* Program constants.                                                      *)

MinFileSize == 50
TruncateLen == 500

----------------------------------------------------------------------------
(* JSON values.  A JSON object carries the keys the normalizers read; a    *)
(* key that is absent has the value "absent" (strings), FALSE (has...) or  *)
(* an empty sequence.  JSON null is "null" for strings and NullTok for     *)
(* numbers.  Every other JSON value (number, string, array) is a scalar:   *)
(* it has no .get method.                                                  *)

NullTok == 0 - 1

NoUsage == [present |-> FALSE, inp |-> 0, out |-> 0]
Usage(i, o) == [present |-> TRUE, inp |-> i, out |-> o]

JScalar == [t |-> "scalar"]

JObj(type, role, tools, usage) ==
    [t |-> "obj", type |-> type, role |-> role, name |-> "absent",
     tools |-> tools, usage |-> usage, sessionId |-> "",
     hasMessages |-> FALSE, messages |-> <<>>,
     hasTokensIn |-> FALSE, tokensIn |-> 0,
     text |-> <<>>, timestamp |-> "absent", ts |-> "absent"]

JDoc(msgs, hasTok, tok) ==
    [t |-> "obj", type |-> "absent", role |-> "absent", name |-> "absent",
     tools |-> <<>>, usage |-> NoUsage, sessionId |-> "",
     hasMessages |-> TRUE, messages |-> msgs,
     hasTokensIn |-> hasTok, tokensIn |-> tok,
     text |-> <<>>, timestamp |-> "absent", ts |-> "absent"]

(* The same object with the string s as its content, and with the value t  *)
(* under its 'timestamp' key.  A string is a sequence of one-character     *)
(* strings; a timestamp is "null" (JSON null), "" (the empty string) or a  *)
(* non-empty string.                                                       *)
Saying(obj, s) == [obj EXCEPT !.text = s]
At(obj, t) == [obj EXCEPT !.timestamp = t]

(* Lines of a file's text.  A "json" line is a complete JSON value on one  *)
(* line; "open" and "close" are the first and last line of a pretty-printed*)
(* object {"messages": [ ... ]} whose single element stands on a line of   *)
(* its own; "marker" is a transcript line "User: ..." or "Assistant: ..."; *)
(* "text" is any other non-blank line; "blank" is empty or whitespace.     *)

Blank == [k |-> "blank"]
Text == [k |-> "text"]
Open == [k |-> "open"]
Close == [k |-> "close"]
Marker(role) == [k |-> "marker", role |-> role]
Json(v) == [k |-> "json", v |-> v]

(* Files: the decoded text as lines, the size in bytes, whether the bytes  *)
(* are valid UTF-8 and whether the process may read them.                  *)

File(lines, size, utf8, readable) ==
    [lines |-> lines, size |-> size, utf8 |-> utf8, readable |-> readable]

NoFile == [lines |-> <<>>, size |-> 0 - 1, utf8 |-> TRUE, readable |-> FALSE]

----------------------------------------------------------------------------
(* json.loads and the detection helpers of _parse_claude_code_log.         *)

NonBlank(lines) == SelectSeq(lines, LAMBDA l : l.k # "blank")

JsonFail == [ok |-> FALSE, v |-> JScalar]

(* json.loads(content) on the whole text: blank lines are whitespace; the  *)
(* text is one JSON value when it is a single complete value, or the       *)
(* pretty-printed object (open, at most one element line, close).          *)
JsonLoads(lines) ==
    LET nb == NonBlank(lines) IN
    IF Len(nb) = 1 /\ nb[1].k = "json"
    THEN [ok |-> TRUE, v |-> nb[1].v]
    ELSE IF Len(nb) = 2 /\ nb[1].k = "open" /\ nb[2].k = "close"
    THEN [ok |-> TRUE, v |-> JDoc(<<>>, FALSE, 0)]
    ELSE IF Len(nb) = 3 /\ nb[1].k = "open" /\ nb[2].k = "json"
            /\ nb[3].k = "close"
    THEN [ok |-> TRUE, v |-> JDoc(<<nb[2].v>>, FALSE, 0)]
    ELSE JsonFail

(* content.strip().split('\n'): leading and trailing whitespace (blank     *)
(* lines) removed; the split of an empty text is one empty line.           *)
RECURSIVE DropLeadingBlank(_)
DropLeadingBlank(lines) ==
    IF lines # <<>> /\ Head(lines).k = "blank"
    THEN DropLeadingBlank(Tail(lines))
    ELSE lines

RECURSIVE DropTrailingBlank(_)
DropTrailingBlank(lines) ==
    IF lines # <<>> /\ lines[Len(lines)].k = "blank"
    THEN DropTrailingBlank(SubSeq(lines, 1, Len(lines) - 1))
    ELSE lines

StripSplit(lines) ==
    LET s == DropTrailingBlank(DropLeadingBlank(lines)) IN
    IF s = <<>> THEN <<Blank>> ELSE s

IsJsonLine(line) == line.k = "json"

AnyJsonLines(lines) ==
    \E i \in 1..Len(lines) : lines[i].k # "blank" /\ IsJsonLine(lines[i])

AllJsonLines(lines) ==
    \A i \in 1..Len(lines) : lines[i].k # "blank" => IsJsonLine(lines[i])

----------------------------------------------------------------------------
(* _extract_content.  A string is a sequence of characters, a character a  *)
(* small number; the literal pieces of the f-strings are string tokens.    *)
(* msg['content'] is [kind |-> "str", s], [kind |-> "list", blocks] or     *)
(* [kind |-> "other"] (neither a string nor a list).                       *)

Chars(n) == [i \in 1..n |-> i % 7]

StrContent(s) == [kind |-> "str", s |-> s, blocks |-> <<>>]
ListContent(blocks) == [kind |-> "list", s |-> <<>>, blocks |-> blocks]
OtherContent == [kind |-> "other", s |-> <<>>, blocks |-> <<>>]

TextBlock(s) == [type |-> "text", text |-> s, name |-> "", content |-> OtherContent]
ToolUseBlock(n) == [type |-> "tool_use", text |-> <<>>, name |-> n, content |-> OtherContent]
ToolResultBlock(c) == [type |-> "tool_result", text |-> <<>>, name |-> "", content |-> c]
OtherBlock == [type |-> "image", text |-> <<>>, name |-> "", content |-> OtherContent]

Ellipsis == <<".", ".", ".">>

RECURSIVE Flatten(_)
Flatten(ss) == IF ss = <<>> THEN <<>> ELSE Head(ss) \o Flatten(Tail(ss))

(* '\n'.join(parts)                                                        *)
RECURSIVE JoinLines(_)
JoinLines(parts) ==
    IF parts = <<>> THEN <<>>
    ELSE IF Len(parts) = 1 THEN parts[1]
    ELSE parts[1] \o <<"\n">> \o JoinLines(Tail(parts))

(* result_content[:500] + '...' when len(result_content) > 500             *)
TruncateString(s) ==
    IF Len(s) > TruncateLen
    THEN SubSeq(s, 1, TruncateLen) \o Ellipsis
    ELSE s

(* item.get('text', '')[:500]                                              *)
SliceItem(s) == SubSeq(s, 1, IF Len(s) < TruncateLen THEN Len(s) ELSE TruncateLen)

ToolResultPart(body) == <<"[Tool Result: ">> \o body \o <<"]">>

(* The parts one block of a content list appends.                          *)
BlockParts(block) ==
    IF block.type = "text" THEN <<block.text>>
    ELSE IF block.type = "tool_use" THEN <<(<<"[Tool: ", block.name, "]">>)>>
    ELSE IF block.type = "tool_result"
    THEN IF block.content.kind = "str"
         THEN <<ToolResultPart(TruncateString(block.content.s))>>
         ELSE IF block.content.kind = "list"
         THEN LET items == SelectSeq(block.content.blocks,
                                     LAMBDA it : it.type = "text")
              IN [i \in 1..Len(items) |-> ToolResultPart(SliceItem(items[i].text))]
         ELSE <<>>
    ELSE <<>>

ExtractContent(content) ==
    IF content.kind = "str" THEN content.s
    ELSE IF content.kind = "list"
    THEN JoinLines(Flatten([i \in 1..Len(content.blocks) |->
                                BlockParts(content.blocks[i])]))
    ELSE <<"str(content)">>

----------------------------------------------------------------------------
(* ParsedSession, and the three normalizers.  A normalizer returns         *)
(* [raised, parsed]: raised when a statement of it throws.                 *)

EmptyParsed(sid) ==
    [ok |-> TRUE, session_id |-> sid, messages |-> <<>>, tool_calls |-> <<>>,
     token_usage |-> <<>>, tokens_in |-> 0, tokens_out |-> 0,
     started_at |-> "null", ended_at |-> "null"]

NoneParsed == [EmptyParsed("") EXCEPT !.ok = FALSE]

Raised == [raised |-> TRUE, parsed |-> NoneParsed]
Returned(p) == [raised |-> FALSE, parsed |-> p]

DefaultRole(role) == IF role = "absent" THEN "unknown" ELSE role

(* msg['content'] of an entry: a string, or, when the entry carries        *)
(* tool_use blocks, a list of one text block and those blocks.             *)
MsgContent(entry) ==
    IF entry.tools = <<>> THEN StrContent(entry.text)
    ELSE ListContent(<<TextBlock(entry.text)>> \o
            [j \in 1..Len(entry.tools) |->
                ToolUseBlock(IF entry.tools[j] = "null" THEN "unknown"
                             ELSE entry.tools[j])])

(* entry.get('timestamp', entry.get('ts')): None is "null".                *)
EntryTs(entry) ==
    IF entry.timestamp # "absent" THEN entry.timestamp
    ELSE IF entry.ts # "absent" THEN entry.ts
    ELSE "null"

(* if ts: a timestamp counts when it is neither None nor empty.            *)
Truthy(t) == t \notin {"null", ""}

(* datetime.fromtimestamp(filepath.stat().st_mtime).isoformat()            *)
FileMtime(path) == "mtime"

NormalizeJson(data, path) ==
    IF data.t = "scalar" THEN Raised
    ELSE
    LET raw == IF data.hasMessages THEN data.messages ELSE <<>> IN
    IF \E i \in 1..Len(raw) : raw[i].t = "scalar" THEN Raised
    ELSE Returned(
        [EmptyParsed(IF data.sessionId # "" THEN data.sessionId
                     ELSE path.stem) EXCEPT
            !.messages = [i \in 1..Len(raw) |->
                            [sequence |-> i - 1,
                             timestamp |-> EntryTs(raw[i]),
                             role |-> DefaultRole(raw[i].role),
                             content |-> ExtractContent(MsgContent(raw[i]))]],
            !.started_at = IF data.timestamp = "absent" THEN "null"
                           ELSE data.timestamp,
            !.tokens_in = IF data.hasTokensIn THEN data.tokensIn
                          ELSE IF data.usage.present THEN data.usage.inp
                          ELSE 0,
            !.tokens_out = IF data.usage.present THEN data.usage.out ELSE 0])

(* usage = msg_data.get('usage', {}); if usage:                            *)
AnyUsage(usage) == TRUE

UsageNonEmpty(usage) == usage.present

(* if ts: if not first_ts: first_ts = ts; last_ts = ts                     *)
LastTsWins(acc, ts) ==
    IF Truthy(ts) THEN [acc EXCEPT !.started_at = ts, !.ended_at = ts]
    ELSE acc

SeenTs(acc, ts) ==
    IF Truthy(ts)
    THEN [acc EXCEPT !.started_at = IF ~Truthy(@) THEN ts ELSE @,
                     !.ended_at = ts]
    ELSE acc

(* 'message_sequence': len(messages) - 1                                   *)
NextMessage(acc) == Len(acc.messages)

MostRecentMessage(acc) == Len(acc.messages) - 1

(* One iteration of the loop over the lines of a JSONL file.               *)
JsonlEntry(acc, entry) ==
    LET seq == Len(acc.messages)
        ts == EntryTs(entry)
        content == ExtractContent(MsgContent(entry))
    IN
    IF entry.type \in {"user", "assistant"}
    THEN LET withMsg == [acc EXCEPT !.messages =
                            Append(@, [sequence |-> seq, timestamp |-> ts,
                                       role |-> entry.type,
                                       content |-> content])]
             withUsage ==
                IF UsageNonEmpty(entry.usage)
                THEN [withMsg EXCEPT
                        !.token_usage = Append(@,
                            [message_sequence |-> seq,
                             input_tokens |-> entry.usage.inp,
                             output_tokens |-> entry.usage.out]),
                        !.tokens_in = @ + entry.usage.inp,
                        !.tokens_out = @ + entry.usage.out]
                ELSE withMsg
         IN IF entry.type = "assistant"
            THEN [withUsage EXCEPT !.tool_calls = @ \o
                    [j \in 1..Len(entry.tools) |->
                        [message_sequence |-> seq,
                         tool_name |-> entry.tools[j]]]]
            ELSE withMsg
    ELSE IF entry.type = "message" \/ entry.role # "absent"
    THEN [acc EXCEPT !.messages =
            Append(@, [sequence |-> seq, timestamp |-> ts,
                       role |-> DefaultRole(entry.role),
                       content |-> content])]
    ELSE IF entry.type = "tool_call"
    THEN [acc EXCEPT !.tool_calls =
            Append(@, [message_sequence |-> MostRecentMessage(acc),
                       tool_name |-> IF entry.name = "absent" THEN "null"
                                     ELSE entry.name])]
    ELSE acc

RECURSIVE JsonlLoop(_, _, _)
JsonlLoop(lines, i, acc) ==
    IF i > Len(lines) THEN Returned(acc)
    ELSE IF lines[i].k = "blank" THEN JsonlLoop(lines, i + 1, acc)
    ELSE IF lines[i].k # "json" THEN Raised
    ELSE IF lines[i].v.t = "scalar" THEN Raised
    ELSE JsonlLoop(lines, i + 1,
                   JsonlEntry(SeenTs(acc, EntryTs(lines[i].v)), lines[i].v))

(* if not first_ts: first_ts = last_ts = the file's modification time      *)
MtimeFallback(acc, path) ==
    IF ~Truthy(acc.started_at)
    THEN [acc EXCEPT !.started_at = FileMtime(path),
                     !.ended_at = FileMtime(path)]
    ELSE acc

NormalizeJsonl(lines, path) ==
    LET r == JsonlLoop(lines, 1, EmptyParsed(path.stem)) IN
    IF r.raised THEN r ELSE Returned(MtimeFallback(r.parsed, path))

(* str.lower() on a string of one-character strings: the                   *)
(* letters A-Z are mapped, every other character (and every token of       *)
(* _extract_content, none of which holds a keyword) stays.                 *)
UpperLetters ==
    <<"A", "B", "C", "D", "E", "F", "G", "H", "I", "J", "K", "L", "M", "N", "O", "P", "Q", "R", "S", "T", "U", "V", "W", "X", "Y", "Z">>
LowerLetters ==
    <<"a", "b", "c", "d", "e", "f", "g", "h", "i", "j", "k", "l", "m", "n", "o", "p", "q", "r", "s", "t", "u", "v", "w", "x", "y", "z">>

LowerChar(c) ==
    IF \E i \in 1..Len(UpperLetters) : UpperLetters[i] = c
    THEN LowerLetters[CHOOSE i \in 1..Len(UpperLetters) : UpperLetters[i] = c]
    ELSE c

KeepCase(s) == s

Lower(s) == [i \in 1..Len(s) |-> LowerChar(s[i])]

(* The text of a line.  A "raw" line carries its characters; the other    *)
(* kinds stand for one line each of their kind.                            *)
Raw(chars) == [k |-> "raw", chars |-> chars]

LineChars(l) ==
    IF l.k = "raw" THEN l.chars
    ELSE IF l.k = "blank" THEN <<>>
    ELSE IF l.k = "marker"
    THEN (IF l.role = "user" THEN <<"U", "s", "e", "r", ":">>
          ELSE <<"A", "s", "s", "i", "s", "t", "a", "n", "t", ":">>)
         \o <<" ", "m">>
    ELSE IF l.k = "text" THEN <<"t">>
    ELSE <<"{">>

(* str.strip(): leading and trailing whitespace goes.                      *)
Whitespace == {" ", "\t", "\n", "\r"}

RECURSIVE LStrip(_)
LStrip(s) ==
    IF s # <<>> /\ Head(s) \in Whitespace THEN LStrip(Tail(s)) ELSE s

RECURSIVE RStrip(_)
RStrip(s) ==
    IF s # <<>> /\ s[Len(s)] \in Whitespace
    THEN RStrip(SubSeq(s, 1, Len(s) - 1))
    ELSE s

NoStrip(s) == s

Strip(s) == RStrip(LStrip(s))

(* str.startswith(prefix)                                                  *)
StartsWith(s, prefix) ==
    Len(s) >= Len(prefix) /\ SubSeq(s, 1, Len(prefix)) = prefix

(* line_lower = line.lower().strip(); the role a marker line starts        *)
MarkerRole(line) ==
    LET line_lower == Strip(Lower(line)) IN
    IF \/ StartsWith(line_lower, <<"h", "u", "m", "a", "n", ":">>)
       \/ StartsWith(line_lower, <<"u", "s", "e", "r", ":">>)
    THEN "user"
    ELSE IF \/ StartsWith(line_lower,
                    <<"a", "s", "s", "i", "s", "t", "a", "n", "t", ":">>)
            \/ StartsWith(line_lower, <<"c", "l", "a", "u", "d", "e", ":">>)
    THEN "assistant"
    ELSE "none"

(* line.split(':', 1)[1] if ':' in line else ''                            *)
AfterColon(line) ==
    IF \E i \in 1..Len(line) : line[i] = ":"
    THEN LET c == CHOOSE i \in 1..Len(line) :
                    line[i] = ":" /\ \A h \in 1..(i - 1) : line[h] # ":"
         IN SubSeq(line, c + 1, Len(line))
    ELSE <<>>

(* if current_role and current_content: messages.append(...)               *)
FlushText(messages, current_role, current_content) ==
    IF current_role # "none" /\ current_content # <<>>
    THEN Append(messages,
                [sequence |-> Len(messages), timestamp |-> "null",
                 role |-> current_role,
                 content |-> Strip(JoinLines(current_content))])
    ELSE messages

(* for line in content.split('\n')                                         *)
RECURSIVE TextLoop(_, _, _, _, _)
TextLoop(lines, i, current_role, current_content, messages) ==
    IF i > Len(lines)
    THEN FlushText(messages, current_role, current_content)
    ELSE LET line == LineChars(lines[i])
             role == MarkerRole(line)
         IN
    IF role # "none"
    THEN TextLoop(lines, i + 1, role, <<AfterColon(line)>>,
                  FlushText(messages, current_role, current_content))
    ELSE TextLoop(lines, i + 1, current_role,
                  Append(current_content, line), messages)

NormalizeText(lines, path) ==
    Returned([EmptyParsed(path.stem) EXCEPT
        !.messages = TextLoop(lines, 1, "none", <<>>, <<>>)])

(* What _parse_claude_code_log returns for a normalizer's result: the      *)
(* except clause turns every exception into None.                          *)
ParseReturn(r) == IF r.raised THEN NoneParsed ELSE r.parsed

ParseClaudeCodeLog(file, path) ==
    IF ~file.readable \/ ~file.utf8 THEN NoneParsed
    ELSE IF JsonLoads(file.lines).ok
    THEN ParseReturn(NormalizeJson(JsonLoads(file.lines).v, path))
    ELSE IF AllJsonLines(StripSplit(file.lines))
    THEN ParseReturn(NormalizeJsonl(StripSplit(file.lines), path))
    ELSE ParseReturn(NormalizeText(file.lines, path))

----------------------------------------------------------------------------
(* The store.  sessions, session_tags and plans are keyed tables (sets of  *)
(* rows); the tables with an AUTOINCREMENT id are sequences in insertion   *)
(* order.  sqlite_sequence holds the largest id ever given out in messages *)
(* and prompt_history, so that an id is never used again.  The two FTS5    *)
(* indexes are sequences of [rowid, text] entries.                         *)

EmptyDb ==
    [sessions |-> {}, messages |-> <<>>, tool_calls |-> <<>>,
     token_usage |-> <<>>, session_tags |-> {}, usage_stats |-> <<>>,
     prompt_history |-> <<>>, plans |-> {}, session_todos |-> <<>>,
     messages_fts |-> <<>>, prompt_history_fts |-> <<>>,
     sqlite_sequence |-> [messages |-> 0, prompt_history |-> 0]]

(* The 'delete' command of an external-content FTS5 table: the entry of    *)
(* that rowid and text leaves the index.                                   *)
FtsDelete(index, rowid, text) ==
    SelectSeq(index, LAMBDA e : ~(e.rowid = rowid /\ e.text = text))

(* TRIGGER messages_ai AFTER INSERT ON messages                            *)
MessagesAi(d, new) ==
    [d EXCEPT !.messages_fts =
        Append(@, [rowid |-> new.id, text |-> new.content])]

(* TRIGGER messages_ad AFTER DELETE ON messages                            *)
MessagesAd(d, old) ==
    [d EXCEPT !.messages_fts = FtsDelete(@, old.id, old.content)]

(* TRIGGER messages_au AFTER UPDATE ON messages                            *)
MessagesAu(d, old, new) ==
    [d EXCEPT !.messages_fts =
        Append(FtsDelete(@, old.id, old.content),
               [rowid |-> new.id, text |-> new.content])]

(* TRIGGER prompt_history_ai AFTER INSERT ON prompt_history                *)
PromptHistoryAi(d, new) ==
    [d EXCEPT !.prompt_history_fts =
        Append(@, [rowid |-> new.id, text |-> new.prompt])]

(* prompt_history has no AFTER DELETE and no AFTER UPDATE trigger.         *)
PromptHistoryAd(d, old) == d
PromptHistoryAu(d, old, new) == d

(* INSERT INTO messages: the row gets the next id and messages_ai fires.   *)
InsertMessageRow(d, row) ==
    LET new == [row EXCEPT !.id = d.sqlite_sequence.messages + 1] IN
    MessagesAi([d EXCEPT !.messages = Append(@, new),
                         !.sqlite_sequence.messages = new.id], new)

(* INSERT INTO prompt_history, with its trigger.                           *)
InsertPromptRow(d, row) ==
    LET new == [row EXCEPT !.id = d.sqlite_sequence.prompt_history + 1] IN
    PromptHistoryAi([d EXCEPT !.prompt_history = Append(@, new),
                              !.sqlite_sequence.prompt_history = new.id], new)

(* hashlib.md5(filepath.read_bytes()): equal bytes, equal digest.          *)
FileHash(file) == [lines |-> file.lines, size |-> file.size, utf8 |-> file.utf8]

SessionHashes(d) == {r.file_hash : r \in d.sessions}

(* INSERT OR REPLACE INTO sessions: id is the PRIMARY KEY, so a row with   *)
(* the same id is deleted before the new row is inserted.                  *)
PlainInsertSession(rows, row) == rows \cup {row}

InsertOrReplaceSession(rows, row) ==
    {r \in rows : r.id # row.id} \cup {row}

SessionRow(parsed, file_hash) ==
    [id |-> parsed.session_id,
     started_at |-> parsed.started_at,
     ended_at |-> parsed.ended_at,
     total_messages |-> Len(parsed.messages),
     total_tokens_in |-> parsed.tokens_in,
     total_tokens_out |-> parsed.tokens_out,
     file_hash |-> file_hash]

(* The tool calls of one message, in list order: those whose               *)
(* message_sequence equals the message's sequence.                         *)
LinkedCalls(parsed, msg) ==
    SelectSeq(parsed.tool_calls,
              LAMBDA tc : tc.message_sequence = msg.sequence)

(* The loop over parsed['messages'] inside the transaction: t is the       *)
(* connection's uncommitted state.  role and tool_name are NOT NULL        *)
(* columns: a null makes the INSERT raise IntegrityError.                  *)
RECURSIVE InsertMessages(_, _, _)
InsertMessages(t, parsed, i) ==
    IF i > Len(parsed.messages) THEN [db |-> t, raised |-> FALSE]
    ELSE
    LET msg == parsed.messages[i]
        message_id == t.sqlite_sequence.messages + 1
        calls == LinkedCalls(parsed, msg)
        firstNull == IF \E j \in 1..Len(calls) : calls[j].tool_name = "null"
                     THEN CHOOSE j \in 1..Len(calls) :
                            /\ calls[j].tool_name = "null"
                            /\ \A h \in 1..(j - 1) : calls[h].tool_name # "null"
                     ELSE Len(calls) + 1
        withMsg == InsertMessageRow(t,
                        [id |-> 0, session_id |-> parsed.session_id,
                         sequence |-> msg.sequence, role |-> msg.role,
                         content |-> msg.content])
        withCalls == [withMsg EXCEPT !.tool_calls = @ \o
                        [j \in 1..(firstNull - 1) |->
                            [session_id |-> parsed.session_id,
                             message_id |-> message_id,
                             sequence |-> calls[j].message_sequence,
                             tool_name |-> calls[j].tool_name]]]
    IN IF msg.role = "null" THEN [db |-> t, raised |-> TRUE]
       ELSE IF firstNull <= Len(calls) THEN [db |-> withCalls, raised |-> TRUE]
       ELSE InsertMessages(withCalls, parsed, i + 1)

InsertTokenUsage(t, parsed) ==
    [t EXCEPT !.token_usage = @ \o
        [i \in 1..Len(parsed.token_usage) |->
            [session_id |-> parsed.session_id,
             message_sequence |-> parsed.token_usage[i].message_sequence,
             input_tokens |-> parsed.token_usage[i].input_tokens,
             output_tokens |-> parsed.token_usage[i].output_tokens]]]

(* _generate_tags.                                                         *)
(* ' '.join(msg.get('content', '') for msg in parsed.get('messages', []))  *)
RECURSIVE JoinSpace(_)
JoinSpace(parts) ==
    IF parts = <<>> THEN <<>>
    ELSE IF Len(parts) = 1 THEN parts[1]
    ELSE parts[1] \o <<" ">> \o JoinSpace(Tail(parts))

(* kw in all_content                                                       *)
Contains(kw, text) ==
    \E i \in 0..(Len(text) - Len(kw)) : SubSeq(text, i + 1, i + Len(kw)) = kw

(* The patterns dict: tag -> keywords.                                     *)
Patterns ==
    {[tag |-> "debugging",
       keywords |-> {<<"e", "r", "r", "o", "r">>,
                     <<"b", "u", "g">>,
                     <<"f", "i", "x">>,
                     <<"d", "e", "b", "u", "g">>,
                     <<"i", "s", "s", "u", "e">>}],
      [tag |-> "refactoring",
       keywords |-> {<<"r", "e", "f", "a", "c", "t", "o", "r">>,
                     <<"c", "l", "e", "a", "n", "u", "p">>,
                     <<"r", "e", "s", "t", "r", "u", "c", "t", "u", "r", "e">>}],
      [tag |-> "feature",
       keywords |-> {<<"i", "m", "p", "l", "e", "m", "e", "n", "t">>,
                     <<"a", "d", "d", " ", "f", "e", "a", "t", "u", "r", "e">>,
                     <<"n", "e", "w", " ", "f", "e", "a", "t", "u", "r", "e">>}],
      [tag |-> "testing",
       keywords |-> {<<"t", "e", "s", "t">>,
                     <<"s", "p", "e", "c">>,
                     <<"c", "o", "v", "e", "r", "a", "g", "e">>}],
      [tag |-> "documentation",
       keywords |-> {<<"d", "o", "c", "u", "m", "e", "n", "t">>,
                     <<"r", "e", "a", "d", "m", "e">>,
                     <<"c", "o", "m", "m", "e", "n", "t">>}]}

ToolTag(n) == [kind |-> "tool", name |-> n]
PatternTag(g) == [kind |-> "pattern", name |-> g]

(* The set tags that _generate_tags builds before it inserts.              *)
TagSet(parsed) ==
    LET tool_names == {parsed.tool_calls[i].tool_name :
                            i \in 1..Len(parsed.tool_calls)}
        all_content == Lower(JoinSpace([i \in 1..Len(parsed.messages) |->
                                            parsed.messages[i].content]))
    IN {ToolTag(n) : n \in {m \in tool_names : m \notin {"null", ""}}}
       \cup {PatternTag(p.tag) :
                p \in {q \in Patterns :
                        \E kw \in q.keywords : Contains(kw, all_content)}}

(* INSERT OR IGNORE INTO session_tags (session_id, tag, auto_generated)    *)
(* VALUES (?, ?, 1): a row with that (session_id, tag) key stays as it is. *)
InsertOrIgnoreTag(rows, row) ==
    IF \E r \in rows : r.session_id = row.session_id /\ r.tag = row.tag
    THEN rows
    ELSE rows \cup {row}

GenerateTags(t, parsed) ==
    LET new == {[session_id |-> parsed.session_id, tag |-> g,
                 auto_generated |-> 1] : g \in TagSet(parsed)}
    IN [t EXCEPT !.session_tags =
            @ \cup {r \in new : InsertOrIgnoreTag(@, r) # @}]

(* The statements of the try block up to conn.commit().                    *)
Transaction(d, parsed, file_hash) ==
    LET t1 == [d EXCEPT !.sessions =
                    InsertOrReplaceSession(@, SessionRow(parsed, file_hash))]
        r2 == InsertMessages(t1, parsed, 1)
    IN IF r2.raised THEN r2
       ELSE [db |-> GenerateTags(InsertTokenUsage(r2.db, parsed), parsed),
             raised |-> FALSE]

(* The logger.info after the commit formats tokens_in and tokens_out with  *)
(* ':,', which raises TypeError for None.                                  *)
LogRaises(parsed) ==
    parsed.tokens_in = NullTok \/ parsed.tokens_out = NullTok

(* _import_session: [db, raised].  An exception before the commit rolls    *)
(* the transaction back; one after the commit finds the rows committed;    *)
(* both are re-raised to the caller.                                       *)
ImportSession(d, parsed, file_hash) ==
    LET r == Transaction(d, parsed, file_hash) IN
    IF r.raised THEN [db |-> d, raised |-> TRUE]
    ELSE [db |-> r.db, raised |-> LogRaises(parsed)]

----------------------------------------------------------------------------
(* _import_stats.  A snapshot is [valid, date, usage], usage a sequence of *)
(* [model, inp, out] with distinct models (the items of modelUsage).       *)

NoStats == [present |-> FALSE, valid |-> FALSE, date |-> "", usage |-> <<>>]
Stats(date, usage) ==
    [present |-> TRUE, valid |-> TRUE, date |-> date, usage |-> usage]
BadStats == [present |-> TRUE, valid |-> FALSE, date |-> "", usage |-> <<>>]

(* INSERT OR REPLACE INTO usage_stats: the statement gives no id and the   *)
(* table has no uniqueness constraint but its AUTOINCREMENT id, so no      *)
(* existing row ever conflicts with the new one.                           *)
UsageStatsConflict(old, new) == old.id = new.id

InsertOrReplaceUsage(rows, row) ==
    LET new == [row EXCEPT !.id = Len(rows) + 1] IN
    Append(SelectSeq(rows, LAMBDA r : ~UsageStatsConflict(r, new)), new)

RECURSIVE StatsLoop(_, _, _, _)
StatsLoop(rows, stats, now, i) ==
    IF i > Len(stats.usage) THEN rows
    ELSE StatsLoop(
            InsertOrReplaceUsage(rows,
                [id |-> 0, stat_date |-> stats.date,
                 model |-> stats.usage[i].model,
                 input_tokens |-> stats.usage[i].inp,
                 output_tokens |-> stats.usage[i].out,
                 updated_at |-> now]),
            stats, now, i + 1)

ImportStats(d, stats, now) ==
    IF ~stats.present THEN d
    ELSE IF ~stats.valid THEN d
    ELSE [d EXCEPT !.usage_stats = StatsLoop(@, stats, now, 1)]

----------------------------------------------------------------------------
(* _import_prompt_history.  history.jsonl is a sequence of lines: blank,   *)
(* not JSON ("bad"), a JSON value that is no object ("scalar"), or an      *)
(* object with a display text and a millisecond timestamp (0 when the key  *)
(* is absent, NullTok when it is null).  The importer returns [db, raised].*)

NoHistory == [present |-> FALSE, lines |-> <<>>]
History(lines) == [present |-> TRUE, lines |-> lines]

HBlank == [k |-> "blank", display |-> "", ts |-> 0]
HBad == [k |-> "bad", display |-> "", ts |-> 0]
HScalar == [k |-> "scalar", display |-> "", ts |-> 0]
HEntry(display, ts) == [k |-> "entry", display |-> display, ts |-> ts]

(* cursor.fetchone()[0] or 0 over SELECT MAX(timestamp_ms)                 *)
RECURSIVE MaxTimestampMs(_)
MaxTimestampMs(rows) ==
    IF rows = <<>> THEN 0
    ELSE LET m == MaxTimestampMs(Tail(rows)) IN
         IF Head(rows).timestamp_ms > m THEN Head(rows).timestamp_ms ELSE m

(* if ts_ms > last_ts                                                      *)
NewerThan(ts_ms, last_ts) == ts_ms > last_ts

(* datetime.fromtimestamp(ts_ms / 1000).isoformat()                        *)
IsoOfMs(ts_ms) == [seconds |-> ts_ms \div 1000, millis |-> ts_ms % 1000]

RECURSIVE HistoryLoop(_, _, _, _)
HistoryLoop(t, lines, i, last_ts) ==
    IF i > Len(lines) THEN [db |-> t, raised |-> FALSE]
    ELSE LET line == lines[i] IN
    IF line.k \in {"blank", "bad"} THEN HistoryLoop(t, lines, i + 1, last_ts)
    ELSE IF line.k = "scalar" \/ line.ts = NullTok
    THEN [db |-> t, raised |-> TRUE]
    ELSE IF NewerThan(line.ts, last_ts)
    THEN HistoryLoop(
            InsertPromptRow(t, [id |-> 0, prompt |-> line.display,
                                timestamp |-> IsoOfMs(line.ts),
                                timestamp_ms |-> line.ts]),
            lines, i + 1, last_ts)
    ELSE HistoryLoop(t, lines, i + 1, last_ts)

(* No except clause: an exception leaves through finally: conn.close(),    *)
(* before conn.commit(), and the rows of this run are not stored.          *)
ImportPromptHistory(d, history) ==
    IF ~history.present THEN [db |-> d, raised |-> FALSE]
    ELSE LET r == HistoryLoop(d, history.lines, 1,
                              MaxTimestampMs(d.prompt_history))
         IN IF r.raised THEN [db |-> d, raised |-> TRUE] ELSE r

----------------------------------------------------------------------------
(* _import_plans.  A plan file has its text (a token), the text of its     *)
(* first '# ' heading ("none" without one) and whether its bytes decode.   *)

NoPlan == [present |-> FALSE, content |-> "", heading |-> "none", utf8 |-> TRUE]
Plan(content, heading, utf8) ==
    [present |-> TRUE, content |-> content, heading |-> heading, utf8 |-> utf8]

PlanOrder == <<"x", "y">>
PlanNames == {PlanOrder[i] : i \in 1..Len(PlanOrder)}

PlanHash(plan) ==
    [content |-> plan.content, heading |-> plan.heading, utf8 |-> plan.utf8]

(* title = plan_file.stem, or the text after the first '# '                *)
PlanTitle(plan, stem) == IF plan.heading = "none" THEN stem ELSE plan.heading

(* INSERT OR REPLACE INTO plans: name is UNIQUE.                           *)
InsertOrReplacePlan(rows, row) ==
    {r \in rows : r.name # row.name} \cup {row}

RECURSIVE PlansLoop(_, _, _)
PlansLoop(t, dir, i) ==
    IF i > Len(PlanOrder) THEN [db |-> t, raised |-> FALSE]
    ELSE LET stem == PlanOrder[i]
             plan == dir[stem]
         IN
    IF ~plan.present THEN PlansLoop(t, dir, i + 1)
    ELSE IF \E r \in t.plans : r.name = stem /\ r.file_hash = PlanHash(plan)
    THEN PlansLoop(t, dir, i + 1)
    ELSE IF ~plan.utf8 THEN [db |-> t, raised |-> TRUE]
    ELSE PlansLoop(
            [t EXCEPT !.plans = InsertOrReplacePlan(@,
                [name |-> stem, title |-> PlanTitle(plan, stem),
                 content |-> plan.content, created_at |-> "mtime",
                 file_hash |-> PlanHash(plan)])],
            dir, i + 1)

(* As in _import_prompt_history, an exception skips the commit.            *)
ImportPlans(d, dir) ==
    LET r == PlansLoop(d, dir, 1) IN
    IF r.raised THEN [db |-> d, raised |-> TRUE] ELSE r

----------------------------------------------------------------------------
(* _import_todos.  The stem of a todo file is the sequence of its parts    *)
(* between the separators '-agent-'.  A todo file holds a JSON list, or    *)
(* text that is no JSON; an item of the list is a dict, a value that is no *)
(* dict, or a dict whose content sqlite cannot bind (a list).              *)

NoTodo == [present |-> FALSE, valid |-> TRUE, items |-> <<>>]
Todo(items) == [present |-> TRUE, valid |-> TRUE, items |-> items]
BadTodo == [present |-> TRUE, valid |-> FALSE, items |-> <<>>]

TodoDict(content, status) ==
    [kind |-> "dict", content |-> content, status |-> status]
TodoScalar == [kind |-> "scalar", content |-> "", status |-> ""]
TodoUnbindable == [kind |-> "unbindable", content |-> "", status |-> ""]

TodoOrder == << <<"s1", "s1">>, <<"s1", "k", "z">>, <<"s2">> >>
TodoStems == {TodoOrder[i] : i \in 1..Len(TodoOrder)}

(* parts = todo_file.stem.split('-agent-'); session_id = parts[0]          *)
SessionIdOf(stem) == Head(stem)

(* SELECT 1 FROM session_todos WHERE session_id = ?                        *)
NeverImported(d, session_id) == FALSE

SessionHasTodos(d, session_id) ==
    \E i \in 1..Len(d.session_todos) :
        d.session_todos[i].session_id = session_id

(* todo.get('content', str(todo)) and todo.get('status', 'unknown'): a     *)
(* dict without the key gets the dict's text, or 'unknown'.                *)
TodoContent(item) ==
    IF item.content = "absent" THEN "str(todo)" ELSE item.content

TodoStatus(item) ==
    IF item.status = "absent" THEN "unknown" ELSE item.status

(* for idx, todo in enumerate(todos): the INSERT of an item that cannot be *)
(* bound raises; the except clause of the file goes on to the next file    *)
(* and the rows inserted so far stay in the transaction.                   *)
RECURSIVE TodoItems(_, _, _, _)
TodoItems(t, session_id, items, i) ==
    IF i > Len(items) THEN t
    ELSE IF items[i].kind = "unbindable" THEN t
    ELSE IF items[i].kind = "scalar"
    THEN TodoItems(t, session_id, items, i + 1)
    ELSE TodoItems(
            [t EXCEPT !.session_todos = Append(@,
                [session_id |-> session_id,
                 content |-> TodoContent(items[i]),
                 status |-> TodoStatus(items[i]), sequence |-> i - 1])],
            session_id, items, i + 1)

RECURSIVE TodosLoop(_, _, _)
TodosLoop(t, dir, i) ==
    IF i > Len(TodoOrder) THEN t
    ELSE LET stem == TodoOrder[i]
             todo == dir[stem]
             session_id == SessionIdOf(stem)
         IN
    IF ~todo.present \/ ~todo.valid \/ todo.items = <<>>
    THEN TodosLoop(t, dir, i + 1)
    ELSE IF SessionHasTodos(t, session_id) THEN TodosLoop(t, dir, i + 1)
    ELSE TodosLoop(TodoItems(t, session_id, todo.items, 1), dir, i + 1)

ImportTodos(d, dir) == TodosLoop(d, dir, 1)

----------------------------------------------------------------------------
(* The four auxiliary importers, in the order process_all calls them.  An  *)
(* importer that raises ends process_all: the later ones do not run.       *)

AuxImport(d, history, stats, plans, todos, now) ==
    LET h == ImportPromptHistory(d, history)
        s == ImportStats(h.db, stats, now)
        p == ImportPlans(s, plans)
        t == ImportTodos(p.db, todos)
    IN IF h.raised
       THEN [db |-> h.db, raised |-> "history", ran |-> {"history"},
             before |-> d, afterHistory |-> h.db, afterStats |-> h.db,
             afterPlans |-> h.db, afterTodos |-> h.db]
       ELSE IF p.raised
       THEN [db |-> p.db, raised |-> "plans",
             ran |-> {"history", "stats", "plans"},
             before |-> d, afterHistory |-> h.db, afterStats |-> s,
             afterPlans |-> p.db, afterTodos |-> p.db]
       ELSE [db |-> t, raised |-> "none",
             ran |-> {"history", "stats", "plans", "todos", "sessions"},
             before |-> d, afterHistory |-> h.db, afterStats |-> s,
             afterPlans |-> p.db, afterTodos |-> t]

----------------------------------------------------------------------------
(* The watched tree.  Two project directories hold a session file of the   *)
(* same stem; GlobOrder is the order in which glob yields the files.       *)

PathA1 == [dir |-> "p1", stem |-> "a"]
PathA2 == [dir |-> "p2", stem |-> "a"]
PathB == [dir |-> "p1", stem |-> "b"]

GlobOrder == <<PathA1, PathA2, PathB>>
PathSet == {GlobOrder[i] : i \in 1..Len(GlobOrder)}

(* Lines and files the environment writes.                                 *)
LineUser == Json(JObj("user", "absent", <<>>, NoUsage))
LineAssistant == Json(JObj("assistant", "absent", <<"Read">>, Usage(100, 50)))
LineLegacyUser == Json(JObj("absent", "user", <<>>, NoUsage))
LineLegacyAssistant == Json(JObj("absent", "assistant", <<>>, NoUsage))
LineNoToolName == Json(JObj("assistant", "absent", <<"null">>, NoUsage))
(* A tool_call entry of the older log format.                             *)
LineToolCall ==
    Json([JObj("tool_call", "absent", <<>>, NoUsage) EXCEPT !.name = "Bash"])
LineDoc == Json(JDoc(<<JObj("absent", "user", <<>>, NoUsage)>>, FALSE, 0))
LineDocNullTokens ==
    Json(JDoc(<<JObj("absent", "user", <<>>, NoUsage)>>, TRUE, NullTok))

FileGood == File(<<LineUser, LineAssistant>>, 60, TRUE, TRUE)
FileGrown == File(<<LineUser, LineAssistant, LineUser>>, 90, TRUE, TRUE)
FileSmall == File(<<LineDoc>>, MinFileSize - 1, TRUE, TRUE)
FileAtLimit == File(<<LineDoc, Blank>>, MinFileSize, TRUE, TRUE)
FileUndecodable == File(<<>>, 64, FALSE, TRUE)
FileUnreadable == File(<<LineUser, LineAssistant>>, 61, TRUE, FALSE)
FileNoToolName == File(<<LineUser, LineNoToolName>>, 70, TRUE, TRUE)
FileNullTokens == File(<<LineDocNullTokens>>, 80, TRUE, TRUE)
FilePlainText == File(<<Text, Text>>, 55, TRUE, TRUE)
FileToolCallFirst ==
    File(<<LineToolCall, LineUser, LineAssistant>>, 75, TRUE, TRUE)

FileCatalog ==
    {FileGood, FileGrown, FileSmall, FileAtLimit, FileUndecodable,
     FileUnreadable, FileNoToolName, FileNullTokens, FilePlainText,
     FileToolCallFirst}

StatsCatalog ==
    {Stats("d1", <<[model |-> "opus", inp |-> 10, out |-> 5]>>),
     Stats("d1", <<[model |-> "opus", inp |-> 20, out |-> 7]>>),
     BadStats}

----------------------------------------------------------------------------
(* process_all and the loop of main.                                       *)

TooSmallOffByOne(file) == file.size <= MinFileSize

TooSmall(file) == file.size < MinFileSize

IsProcessed(d, file) == FileHash(file) \in SessionHashes(d)

Importable(parsed) == parsed.ok /\ parsed.messages # <<>>

CurPath == log_files[idx]
CurFile == fs[CurPath]

Step(outcome, hashes, opened, importCalled) ==
    [path |-> CurPath, file |-> CurFile, outcome |-> outcome,
     hashes |-> hashes,
     opened |-> opened, importCalled |-> importCalled, dbBefore |-> db,
     before |-> <<processed, skipped, errors>>]

ImportedPaths(tr) ==
    {tr[i].path : i \in {j \in 1..Len(tr) : tr[j].outcome = "imported"}}

Failures(tr) ==
    {i \in 1..Len(tr) : tr[i].outcome \in {"import_error", "aborted"}}

EndScan(aborted, tr) ==
    [ended |-> lastDone.ended + 1, aborted |-> aborted,
     clean |-> lastDone.clean /\ ~aborted /\ Failures(tr) = {},
     importedBefore |-> lastDone.imported,
     imported |-> lastDone.imported \cup ImportedPaths(tr),
     editsAtFirst |-> lastDone.editsAtFirst]

InLoop == pc = "scan" /\ idx <= Len(log_files)

(* main: except Exception as e: logger.error(...), then time.sleep and the *)
(* next turn of while True.                                                *)
ExceptionExits == "exited"

ExceptionInMain == "idle"

(* What the auxiliary importers of a scan did, with the files they read    *)
(* and the history file of the scan before.                                *)
AuxLog(a) ==
    [started |-> TRUE, raised |-> a.raised, ran |-> a.ran,
     before |-> a.before, afterHistory |-> a.afterHistory,
     afterStats |-> a.afterStats, afterPlans |-> a.afterPlans,
     afterTodos |-> a.afterTodos,
     history |-> historyFile, plans |-> plansDir, todos |-> todosDir,
     prevStarted |-> aux.started, prevHistory |-> aux.history,
     prevRaised |-> aux.raised]

(* The environment appends a line to history.jsonl between two scans.      *)
AppendHistory(line) ==
    /\ pc = "idle" /\ edits < MaxEdits /\ scans < MaxScans
    /\ historyFile' = History(Append(historyFile.lines, line))
    /\ edits' = edits + 1
    /\ UNCHANGED <<fs, statsFile, plansDir, todosDir, aux, db, pc, log_files,
                   idx, processed, skipped, errors, scans, clock, trace,
                   lastDone>>
    /\ UNCHANGED <<parseVars, extractVars>>

(* The environment writes, changes or removes plans/<name>.md.             *)
WritePlan(name, plan) ==
    /\ pc = "idle" /\ edits < MaxEdits /\ scans < MaxScans
    /\ plansDir[name] # plan
    /\ plansDir' = [plansDir EXCEPT ![name] = plan]
    /\ edits' = edits + 1
    /\ UNCHANGED <<fs, statsFile, historyFile, todosDir, aux, db, pc,
                   log_files, idx, processed, skipped, errors, scans, clock,
                   trace, lastDone>>
    /\ UNCHANGED <<parseVars, extractVars>>

(* The environment writes, changes or removes todos/<stem>.json.           *)
WriteTodo(stem, todo) ==
    /\ pc = "idle" /\ edits < MaxEdits /\ scans < MaxScans
    /\ todosDir[stem] # todo
    /\ todosDir' = [todosDir EXCEPT ![stem] = todo]
    /\ edits' = edits + 1
    /\ UNCHANGED <<fs, statsFile, historyFile, plansDir, aux, db, pc,
                   log_files, idx, processed, skipped, errors, scans, clock,
                   trace, lastDone>>
    /\ UNCHANGED <<parseVars, extractVars>>

(* The environment replaces or creates a session file between two scans.   *)
WriteFile(p, f) ==
    /\ pc = "idle" /\ edits < MaxEdits /\ scans < MaxScans
    /\ fs[p] # f
    /\ fs' = [fs EXCEPT ![p] = f]
    /\ edits' = edits + 1
    /\ UNCHANGED <<statsFile, db, pc, log_files, idx, processed, skipped,
                   errors, scans, clock, trace, lastDone>>
    /\ UNCHANGED <<auxVars, parseVars, extractVars>>

(* The environment writes stats-cache.json between two scans.              *)
WriteStats(s) ==
    /\ pc = "idle" /\ edits < MaxEdits /\ scans < MaxScans
    /\ statsFile # s
    /\ statsFile' = s
    /\ edits' = edits + 1
    /\ UNCHANGED <<fs, db, pc, log_files, idx, processed, skipped,
                   errors, scans, clock, trace, lastDone>>
    /\ UNCHANGED <<auxVars, parseVars, extractVars>>

(* main calls process_all: the auxiliary importers run, the candidates are *)
(* globbed and the counters start at 0.                                    *)
StartScan ==
    /\ pc = "idle" /\ scans < MaxScans
    /\ clock' = clock + 1
    /\ LET a == AuxImport(db, historyFile, statsFile, plansDir, todosDir,
                          clock')
       IN /\ a.raised = "none"
          /\ db' = a.db
          /\ aux' = AuxLog(a)
    /\ log_files' = SelectSeq(GlobOrder, LAMBDA p : fs[p] # NoFile)
    /\ idx' = 1
    /\ processed' = 0 /\ skipped' = 0 /\ errors' = 0
    /\ trace' = <<>>
    /\ scans' = scans + 1
    /\ lastDone' = IF scans = 0 THEN [lastDone EXCEPT !.editsAtFirst = edits]
                   ELSE lastDone
    /\ pc' = "scan"
    /\ UNCHANGED <<fs, statsFile, historyFile, plansDir, todosDir, edits>>
    /\ UNCHANGED <<parseVars, extractVars>>

(* An auxiliary importer raises: nothing in process_all catches it, the    *)
(* session files are not globbed and main logs the exception.              *)
AuxRaises ==
    /\ pc = "idle" /\ scans < MaxScans
    /\ clock' = clock + 1
    /\ LET a == AuxImport(db, historyFile, statsFile, plansDir, todosDir,
                          clock')
       IN /\ a.raised # "none"
          /\ db' = a.db
          /\ aux' = AuxLog(a)
    /\ log_files' = <<>>
    /\ idx' = 1
    /\ trace' = <<>>
    /\ scans' = scans + 1
    /\ lastDone' = EndScan(TRUE, <<>>)
    /\ pc' = ExceptionInMain
    /\ UNCHANGED <<fs, statsFile, historyFile, plansDir, todosDir, edits,
                   processed, skipped, errors>>
    /\ UNCHANGED <<parseVars, extractVars>>

(* if filepath.stat().st_size < 50: continue                               *)
SkipSmall ==
    /\ InLoop /\ TooSmall(CurFile)
    /\ trace' = Append(trace, Step("small", 0, FALSE, FALSE))
    /\ idx' = idx + 1
    /\ UNCHANGED <<fs, statsFile, db, pc, log_files, processed, skipped,
                   errors, scans, edits, clock, lastDone>>
    /\ UNCHANGED <<auxVars, parseVars, extractVars>>

(* _is_processed -> _file_hash -> read_bytes raises OSError: nothing in    *)
(* process_all catches it, the scan ends there and main logs it.           *)
DedupRaises ==
    /\ InLoop /\ ~TooSmall(CurFile) /\ ~CurFile.readable
    /\ trace' = Append(trace, Step("aborted", 1, FALSE, FALSE))
    /\ lastDone' = EndScan(TRUE, trace')
    /\ pc' = ExceptionInMain
    /\ UNCHANGED <<fs, statsFile, db, log_files, idx, processed, skipped,
                   errors, scans, edits, clock>>
    /\ UNCHANGED <<auxVars, parseVars, extractVars>>

(* if self._is_processed(filepath): skipped += 1; continue                 *)
SkipProcessed ==
    /\ InLoop /\ ~TooSmall(CurFile) /\ CurFile.readable
    /\ IsProcessed(db, CurFile)
    /\ trace' = Append(trace, Step("skipped", 1, FALSE, FALSE))
    /\ skipped' = skipped + 1
    /\ idx' = idx + 1
    /\ UNCHANGED <<fs, statsFile, db, pc, log_files, processed, errors,
                   scans, edits, clock, lastDone>>
    /\ UNCHANGED <<auxVars, parseVars, extractVars>>

(* parsed is None or has no messages: logger.debug, no counter changes.    *)
NoContent ==
    /\ InLoop /\ ~TooSmall(CurFile) /\ CurFile.readable
    /\ ~IsProcessed(db, CurFile)
    /\ ~Importable(ParseClaudeCodeLog(CurFile, CurPath))
    /\ trace' = Append(trace, Step("no_content", 1, TRUE, FALSE))
    /\ idx' = idx + 1
    /\ UNCHANGED <<fs, statsFile, db, pc, log_files, processed, skipped,
                   errors, scans, edits, clock, lastDone>>
    /\ UNCHANGED <<auxVars, parseVars, extractVars>>

(* self._import_session(parsed, self._file_hash(filepath)) returns.        *)
ImportOk ==
    /\ InLoop /\ ~TooSmall(CurFile) /\ CurFile.readable
    /\ ~IsProcessed(db, CurFile)
    /\ LET parsed == ParseClaudeCodeLog(CurFile, CurPath)
           r == ImportSession(db, parsed, FileHash(CurFile))
       IN /\ Importable(parsed)
          /\ ~r.raised
          /\ db' = r.db
    /\ trace' = Append(trace, Step("imported", 2, TRUE, TRUE))
    /\ processed' = processed + 1
    /\ idx' = idx + 1
    /\ UNCHANGED <<fs, statsFile, pc, log_files, skipped, errors, scans,
                   edits, clock, lastDone>>
    /\ UNCHANGED <<auxVars, parseVars, extractVars>>

(* _import_session raises: except Exception: errors += 1.                  *)
ImportFails ==
    /\ InLoop /\ ~TooSmall(CurFile) /\ CurFile.readable
    /\ ~IsProcessed(db, CurFile)
    /\ LET parsed == ParseClaudeCodeLog(CurFile, CurPath)
           r == ImportSession(db, parsed, FileHash(CurFile))
       IN /\ Importable(parsed)
          /\ r.raised
          /\ db' = r.db
    /\ trace' = Append(trace, Step("import_error", 2, TRUE, TRUE))
    /\ errors' = errors + 1
    /\ idx' = idx + 1
    /\ UNCHANGED <<fs, statsFile, pc, log_files, processed, skipped, scans,
                   edits, clock, lastDone>>
    /\ UNCHANGED <<auxVars, parseVars, extractVars>>

(* The loop is over: the summary is logged, process_all returns and main   *)
(* sleeps until the next cycle.                                            *)
FinishScan ==
    /\ pc = "scan" /\ idx > Len(log_files)
    /\ lastDone' = EndScan(FALSE, trace)
    /\ pc' = "idle"
    /\ UNCHANGED <<fs, statsFile, db, log_files, idx, processed, skipped,
                   errors, scans, edits, clock, trace>>
    /\ UNCHANGED <<auxVars, parseVars, extractVars>>

NoAux ==
    [started |-> FALSE, raised |-> "none", ran |-> {},
     before |-> EmptyDb, afterHistory |-> EmptyDb, afterStats |-> EmptyDb,
     afterPlans |-> EmptyDb, afterTodos |-> EmptyDb,
     history |-> NoHistory, plans |-> [n \in PlanNames |-> NoPlan],
     todos |-> [st \in TodoStems |-> NoTodo],
     prevStarted |-> FALSE, prevHistory |-> NoHistory, prevRaised |-> "none"]

ProcessInit ==
    /\ statsFile = NoStats
    /\ historyFile = NoHistory
    /\ plansDir = [n \in PlanNames |-> NoPlan]
    /\ todosDir = [st \in TodoStems |-> NoTodo]
    /\ aux = NoAux
    /\ db = EmptyDb
    /\ pc = "idle"
    /\ log_files = <<>>
    /\ idx = 1
    /\ processed = 0 /\ skipped = 0 /\ errors = 0
    /\ scans = 0 /\ edits = 0 /\ clock = 0
    /\ trace = <<>>
    /\ lastDone = [ended |-> 0, aborted |-> FALSE, clean |-> TRUE,
                   importedBefore |-> {},
                   imported |-> {}, editsAtFirst |-> 0]

ScanInit ==
    /\ fs = [p \in PathSet |-> NoFile]
    /\ ProcessInit

ParseIdle ==
    /\ pfile = NoFile /\ ppc = "off" /\ applied = <<>> /\ pout = NoneParsed

ExtractIdle ==
    /\ xin = <<>> /\ xpc = "off" /\ xout = <<>>

Init == ScanInit /\ ParseIdle /\ ExtractIdle

Next ==
    \/ \E p \in PathSet, f \in FileCatalog : WriteFile(p, f)
    \/ \E s \in StatsCatalog : WriteStats(s)
    \/ StartScan
    \/ SkipSmall
    \/ DedupRaises
    \/ SkipProcessed
    \/ NoContent
    \/ ImportOk
    \/ ImportFails
    \/ FinishScan

Spec == Init /\ [][Next]_vars

----------------------------------------------------------------------------
(* The scan loop over a watched tree that holds the auxiliary sources: the *)
(* environment edits history.jsonl, plans/, todos/ and stats-cache.json    *)
(* between the scans of a fixed set of session files.                      *)

TreeA == (PathA1 :> FileGood) @@ (PathA2 :> FileSmall)
            @@ (PathB :> FileNullTokens)
TreeB == (PathA1 :> FilePlainText) @@ (PathA2 :> NoFile)
            @@ (PathB :> FileUnreadable)

HistoryCatalog ==
    {HEntry("a", 1), HEntry("b", 2), HEntry("c", 1), HEntry("z", 0),
     HBlank, HBad, HScalar}

PlanCatalog ==
    {NoPlan, Plan("c1", "T", TRUE), Plan("c2", "none", TRUE),
     Plan("c3", "none", FALSE)}

TodoCatalog ==
    {NoTodo, BadTodo, Todo(<<>>), Todo(<<TodoDict("a", "done"), TodoDict("absent", "absent")>>),
     Todo(<<TodoDict("b", "open"), TodoScalar, TodoDict("c", "open"),
            TodoUnbindable, TodoDict("d", "open")>>)}

AuxStatsCatalog ==
    {Stats("d1", <<[model |-> "opus", inp |-> 10, out |-> 5]>>), BadStats}

AuxInit ==
    /\ fs \in {TreeA, TreeB}
    /\ ProcessInit
    /\ ParseIdle /\ ExtractIdle

AuxNext ==
    \/ \E line \in HistoryCatalog : AppendHistory(line)
    \/ \E n \in PlanNames, p \in PlanCatalog : WritePlan(n, p)
    \/ \E st \in TodoStems, t \in TodoCatalog : WriteTodo(st, t)
    \/ \E s \in AuxStatsCatalog : WriteStats(s)
    \/ StartScan
    \/ AuxRaises
    \/ SkipSmall
    \/ DedupRaises
    \/ SkipProcessed
    \/ NoContent
    \/ ImportOk
    \/ ImportFails
    \/ FinishScan

SpecAux == AuxInit /\ [][AuxNext]_vars

(* main: while True: process_all(); time.sleep(watch_interval).  The       *)
(* process is one thread that keeps running: every statement of a scan     *)
(* returns and the sleep ends, so a step of the loop that stays possible   *)
(* is taken.  Nothing obliges the environment to write files.              *)
MainLoop ==
    \/ StartScan
    \/ AuxRaises
    \/ SkipSmall
    \/ DedupRaises
    \/ SkipProcessed
    \/ NoContent
    \/ ImportOk
    \/ ImportFails
    \/ FinishScan

(* The file at idx is to be parsed and imported: the size check and        *)
(* _is_processed let it through.  Exactly one of NoContent, ImportOk and   *)
(* ImportFails applies then.                                               *)
ImportReady ==
    /\ InLoop /\ ~TooSmall(CurFile) /\ CurFile.readable
    /\ ~IsProcessed(db, CurFile)

ImportStep == NoContent \/ ImportOk \/ ImportFails

LoopStep ==
    \/ StartScan
    \/ AuxRaises
    \/ SkipSmall
    \/ DedupRaises
    \/ SkipProcessed
    \/ FinishScan

(* Weak fairness of the main loop.  For the parse-and-import step it is    *)
(* written out, WF_vars(ImportStep) with ImportReady for                   *)
(* ENABLED <<ImportStep>>_vars.                                            *)
MainLoopRuns ==
    /\ WF_vars(LoopStep)
    /\ ([]<>(~ImportReady) \/ []<><<ImportStep>>_vars)

(* The process started on a log directory that nobody writes to while it   *)
(* runs: what is on disk is chosen at the start, and only main takes       *)
(* steps.                                                                  *)
LoopHistories ==
    {NoHistory, History(<<HEntry("a", 1)>>), History(<<HScalar>>)}
LoopPlans == {NoPlan, Plan("c1", "T", TRUE), Plan("c3", "none", FALSE)}

LoopInit ==
    /\ fs \in {TreeA, TreeB}
    /\ statsFile = NoStats
    /\ historyFile \in LoopHistories
    /\ plansDir \in [PlanNames -> LoopPlans]
    /\ todosDir = [st \in TodoStems |-> NoTodo]
    /\ aux = NoAux
    /\ db = EmptyDb
    /\ pc = "idle"
    /\ log_files = <<>>
    /\ idx = 1
    /\ processed = 0 /\ skipped = 0 /\ errors = 0
    /\ scans = 0 /\ edits = 0 /\ clock = 0
    /\ trace = <<>>
    /\ lastDone = [ended |-> 0, aborted |-> FALSE, clean |-> TRUE,
                   importedBefore |-> {},
                   imported |-> {}, editsAtFirst |-> 0]
    /\ ParseIdle /\ ExtractIdle

SpecLoop == LoopInit /\ [][MainLoop]_vars

FairSpecLoop == SpecLoop /\ MainLoopRuns

----------------------------------------------------------------------------
(* _parse_claude_code_log, statement by statement, on one file.            *)

LineTypedAssistant == Json(JObj("assistant", "absent", <<>>, NoUsage))
LineUserT1 == Json(At(JObj("user", "absent", <<>>, NoUsage), "t1"))
LineAssistantT2 ==
    Json(At(JObj("assistant", "absent", <<"Read">>, Usage(100, 50)), "t2"))
LineUserEmptyTs == Json(At(JObj("user", "absent", <<>>, NoUsage), ""))
LineSummaryT3 == Json(At(JObj("summary", "absent", <<>>, NoUsage), "t3"))
LineUserUsage == Json(At(JObj("user", "absent", <<>>, Usage(7, 3)), "null"))
LineAssistantTwoTools ==
    Json(JObj("assistant", "absent", <<"Read", "Edit">>, NoUsage))
LineToolCallWithRole ==
    Json([JObj("tool_call", "assistant", <<>>, NoUsage) EXCEPT
            !.name = "Bash"])

ParseAlphabet ==
    {Blank, Text, Open, Close, Marker("user"), Marker("assistant"),
     LineLegacyUser, LineLegacyAssistant, LineUser, LineTypedAssistant,
     Json(JScalar), LineDoc,
     LineUserT1, LineAssistantT2, LineUserEmptyTs, LineSummaryT3,
     LineUserUsage, LineAssistantTwoTools,
     LineToolCall, LineToolCallWithRole}

SeqsUpTo(S, n) == UNION {[1..k -> S] : k \in 0..n}

Roles == {"user", "assistant"}
Conversations == SeqsUpTo(Roles, MaxMsgs) \ {<<>>}

(* A conversation as one JSON object with a messages array of              *)
(* {role, content}, on one line.                                           *)
JsonEncoding(conv) ==
    <<Json(JDoc([i \in 1..Len(conv) |->
                    JObj("absent", conv[i], <<>>, NoUsage)], FALSE, 0))>>

(* The same conversation as JSONL: one {role, content} object per line.    *)
JsonlEncoding(conv) ==
    [i \in 1..Len(conv) |-> Json(JObj("absent", conv[i], <<>>, NoUsage))]

ParseInputs ==
    {File(l, 60, TRUE, TRUE) : l \in SeqsUpTo(ParseAlphabet, MaxLines)}
    \cup {File(JsonEncoding(c), 60, TRUE, TRUE) : c \in Conversations}
    \cup {File(JsonlEncoding(c), 60, TRUE, TRUE) : c \in Conversations}
    \cup {FileUndecodable, FileUnreadable}

ParsePath == PathA1

(* open(filepath, 'r', encoding='utf-8') or f.read() raises: the outer     *)
(* except returns None.                                                    *)
ReadFails ==
    /\ ppc = "start" /\ (~pfile.readable \/ ~pfile.utf8)
    /\ pout' = NoneParsed
    /\ ppc' = "done"
    /\ UNCHANGED <<pfile, applied>>
    /\ UNCHANGED <<scanVars, extractVars>>

ReadOk ==
    /\ ppc = "start" /\ pfile.readable /\ pfile.utf8
    /\ ppc' = "json"
    /\ UNCHANGED <<pfile, applied, pout>>
    /\ UNCHANGED <<scanVars, extractVars>>

(* data = json.loads(content); return self._normalize_json_log(...)        *)
JsonApplies ==
    /\ ppc = "json" /\ JsonLoads(pfile.lines).ok
    /\ applied' = Append(applied, "json")
    /\ pout' = ParseReturn(NormalizeJson(JsonLoads(pfile.lines).v, ParsePath))
    /\ ppc' = "done"
    /\ UNCHANGED pfile
    /\ UNCHANGED <<scanVars, extractVars>>

(* except json.JSONDecodeError: pass                                       *)
JsonDecodeError ==
    /\ ppc = "json" /\ ~JsonLoads(pfile.lines).ok
    /\ ppc' = "jsonl"
    /\ UNCHANGED <<pfile, applied, pout>>
    /\ UNCHANGED <<scanVars, extractVars>>

(* if all(self._is_json_line(line) for line in lines if line.strip())      *)
JsonlApplies ==
    /\ ppc = "jsonl" /\ AllJsonLines(StripSplit(pfile.lines))
    /\ applied' = Append(applied, "jsonl")
    /\ pout' = ParseReturn(NormalizeJsonl(StripSplit(pfile.lines), ParsePath))
    /\ ppc' = "done"
    /\ UNCHANGED pfile
    /\ UNCHANGED <<scanVars, extractVars>>

NotJsonl ==
    /\ ppc = "jsonl" /\ ~AllJsonLines(StripSplit(pfile.lines))
    /\ ppc' = "text"
    /\ UNCHANGED <<pfile, applied, pout>>
    /\ UNCHANGED <<scanVars, extractVars>>

(* return self._normalize_text_log(content, filepath)                      *)
TextApplies ==
    /\ ppc = "text"
    /\ applied' = Append(applied, "text")
    /\ pout' = ParseReturn(NormalizeText(pfile.lines, ParsePath))
    /\ ppc' = "done"
    /\ UNCHANGED pfile
    /\ UNCHANGED <<scanVars, extractVars>>

ParseInit ==
    /\ ScanInit /\ ExtractIdle
    /\ pfile \in ParseInputs
    /\ ppc = "start" /\ applied = <<>> /\ pout = NoneParsed

ParseNext ==
    \/ ReadFails
    \/ ReadOk
    \/ JsonApplies
    \/ JsonDecodeError
    \/ JsonlApplies
    \/ NotJsonl
    \/ TextApplies

SpecParse == ParseInit /\ [][ParseNext]_vars

----------------------------------------------------------------------------
(* _extract_content, statement by statement, on one content value.        *)

(* Inputs: strings around the truncation limit, in every block shape.      *)
TestLengths ==
    {0, 1} \cup {n \in (TruncateLen - 1)..(TruncateLen + MaxOver) : TRUE}
TestStrings == {Chars(n) : n \in TestLengths}

ResultContents ==
    {StrContent(s) : s \in TestStrings}
    \cup {ListContent(<<TextBlock(s)>>) : s \in TestStrings}
    \cup {ListContent(<<TextBlock(s), OtherBlock, TextBlock(Chars(1))>>) :
            s \in TestStrings}
    \cup {OtherContent}

TestBlocks ==
    {TextBlock(s) : s \in TestStrings}
    \cup {ToolResultBlock(c) : c \in ResultContents}
    \cup {ToolUseBlock("Read"), OtherBlock}

ExtractInputs ==
    {StrContent(s) : s \in TestStrings}
    \cup {ListContent(<<b>>) : b \in TestBlocks}
    \cup {ListContent(<<TextBlock(Chars(1)), b>>) : b \in TestBlocks}
    \cup {ListContent(<<b, ToolUseBlock("Read")>>) : b \in TestBlocks}
    \cup {OtherContent, ListContent(<<>>)}

(* if isinstance(content, str): return content                             *)
ExtractString ==
    /\ xpc = "start" /\ xin.kind = "str"
    /\ xout' = ExtractContent(xin)
    /\ xpc' = "done"
    /\ UNCHANGED xin
    /\ UNCHANGED <<scanVars, parseVars>>

(* elif isinstance(content, list): ... return '\n'.join(parts)             *)
ExtractList ==
    /\ xpc = "start" /\ xin.kind = "list"
    /\ xout' = ExtractContent(xin)
    /\ xpc' = "done"
    /\ UNCHANGED xin
    /\ UNCHANGED <<scanVars, parseVars>>

(* return str(content)                                                     *)
ExtractOther ==
    /\ xpc = "start" /\ xin.kind = "other"
    /\ xout' = ExtractContent(xin)
    /\ xpc' = "done"
    /\ UNCHANGED xin
    /\ UNCHANGED <<scanVars, parseVars>>

ExtractInit ==
    /\ ScanInit /\ ParseIdle
    /\ xin \in ExtractInputs
    /\ xpc = "start" /\ xout = <<>>

ExtractNext == ExtractString \/ ExtractList \/ ExtractOther

SpecExtract == ExtractInit /\ [][ExtractNext]_vars

----------------------------------------------------------------------------
(* _generate_tags on one ParsedSession, into a store without tags.         *)

StrPleaseAdd == <<"p", "l", "e", "a", "s", "e", " ", "a", "d", "d">>
StrFeatureFlags == <<"f", "e", "a", "t", "u", "r", "e", " ", "f", "l", "a", "g", "s">>
StrEr == <<"e", "r">>
StrRor == <<"r", "o", "r">>
StrFix == <<"F", "i", "x">>
StrHello == <<"h", "e", "l", "l", "o">>
StrLatest == <<"l", "a", "t", "e", "s", "t">>

TagStrings ==
    {StrPleaseAdd, StrFeatureFlags, StrEr, StrRor, StrFix, StrHello,
     StrLatest}

TagToolLists ==
    {<<>>, <<"Read">>, <<"Read", "Edit">>, <<"Read", "Read">>, <<"null">>,
     <<"">>}

TagInputs ==
    {[EmptyParsed("s") EXCEPT
        !.messages = [i \in 1..Len(c) |->
                        [sequence |-> i - 1, timestamp |-> "null",
                         role |-> "user", content |-> c[i]]],
        !.tool_calls = [j \in 1..Len(tl) |->
                        [message_sequence |-> 0, tool_name |-> tl[j]]]] :
        c \in SeqsUpTo(TagStrings, MaxMsgs), tl \in TagToolLists}

(* self._generate_tags(conn, parsed)                                       *)
TagSession ==
    /\ ppc = "tags"
    /\ db' = GenerateTags(db, pout)
    /\ ppc' = "tagged"
    /\ UNCHANGED <<pfile, applied, pout>>
    /\ UNCHANGED <<fs, statsFile, pc, log_files, idx, processed, skipped,
                   errors, scans, edits, clock, trace, lastDone>>
    /\ UNCHANGED <<auxVars, extractVars>>

TagsInit ==
    /\ ScanInit /\ ExtractIdle
    /\ pfile = NoFile /\ applied = <<>>
    /\ pout \in TagInputs
    /\ ppc = "tags"

TagsNext == TagSession

SpecTags == TagsInit /\ [][TagsNext]_vars

----------------------------------------------------------------------------
(* process_all on files that another process appends to while the scan     *)
(* runs.  The loop body reads a file three times: _is_processed hashes it  *)
(* (line 844), _parse_claude_code_log reads it (line 848) and _file_hash   *)
(* hashes it again for the import (line 851).  ppc is the position inside  *)
(* the loop body, pfile the bytes the parse read, pout what it returned.   *)

(* A writer appends one line to a session log.                             *)
Appended(file) ==
    File(file.lines \o <<LineUser>>, file.size + 30, file.utf8, file.readable)

WriterAppends(p) ==
    /\ fs[p] # NoFile /\ edits < MaxEdits /\ scans <= MaxScans
    /\ fs' = [fs EXCEPT ![p] = Appended(fs[p])]
    /\ edits' = edits + 1
    /\ UNCHANGED <<statsFile, db, pc, log_files, idx, processed, skipped,
                   errors, scans, clock, trace, lastDone>>
    /\ UNCHANGED <<auxVars, parseVars, extractVars>>

(* if self._is_processed(filepath): skipped += 1; continue                 *)
DedupSkips == ppc = "off" /\ SkipProcessed

DedupPasses ==
    /\ InLoop /\ ppc = "off" /\ ~TooSmall(CurFile) /\ CurFile.readable
    /\ ~IsProcessed(db, CurFile)
    /\ ppc' = "parse"
    /\ UNCHANGED <<pfile, applied, pout>>
    /\ UNCHANGED <<scanVars, extractVars>>

(* parsed = self._parse_claude_code_log(filepath)                          *)
ParseReads ==
    /\ ppc = "parse"
    /\ pfile' = CurFile
    /\ pout' = ParseClaudeCodeLog(CurFile, CurPath)
    /\ ppc' = "import"
    /\ UNCHANGED applied
    /\ UNCHANGED <<scanVars, extractVars>>

(* self._import_session(parsed, self._file_hash(filepath))                 *)
ImportHashes ==
    /\ ppc = "import" /\ Importable(pout)
    /\ LET r == ImportSession(db, pout, FileHash(CurFile)) IN
       /\ db' = r.db
       /\ trace' = Append(trace,
                          Step(IF r.raised THEN "import_error"
                               ELSE "imported", 2, TRUE, TRUE))
       /\ processed' = IF r.raised THEN processed ELSE processed + 1
       /\ errors' = IF r.raised THEN errors + 1 ELSE errors
    /\ idx' = idx + 1
    /\ ppc' = "off"
    /\ UNCHANGED <<pfile, applied, pout>>
    /\ UNCHANGED <<fs, statsFile, pc, log_files, skipped, scans, edits,
                   clock, lastDone>>
    /\ UNCHANGED <<auxVars, extractVars>>

(* else: logger.debug("Skipped ...: no valid content")                     *)
ParsedNothing ==
    /\ ppc = "import" /\ ~Importable(pout)
    /\ trace' = Append(trace, Step("no_content", 1, TRUE, FALSE))
    /\ idx' = idx + 1
    /\ ppc' = "off"
    /\ UNCHANGED <<pfile, applied, pout>>
    /\ UNCHANGED <<fs, statsFile, db, pc, log_files, processed, skipped,
                   errors, scans, edits, clock, lastDone>>
    /\ UNCHANGED <<auxVars, extractVars>>

RaceTree == (PathA1 :> FilePlainText) @@ (PathA2 :> FileSmall)
                @@ (PathB :> FileGood)

RaceInit ==
    /\ fs = RaceTree
    /\ ProcessInit
    /\ ParseIdle /\ ExtractIdle

RaceNext ==
    \/ \E p \in PathSet : WriterAppends(p)
    \/ StartScan
    \/ SkipSmall
    \/ DedupSkips
    \/ DedupPasses
    \/ ParseReads
    \/ ImportHashes
    \/ ParsedNothing
    \/ FinishScan

SpecRace == RaceInit /\ [][RaceNext]_vars

----------------------------------------------------------------------------
(* _normalize_text_log on transcripts given character by character.        *)

MaxTextLines == 3

RawUserHi == Raw(<<"U", "s", "e", "r", ":", " ", "h", "i">>)
RawHumanIndented == Raw(<<" ", "H", "U", "M", "A", "N", ":", "x">>)
RawClaudeBare == Raw(<<"c", "l", "a", "u", "d", "e", ":">>)
RawAssistantColon ==
    Raw(<<"A", "s", "s", "i", "s", "t", "a", "n", "t", ":", "a", ":", "b">>)
RawNote == Raw(<<"n", "o", "t", "e">>)
RawEmpty == Raw(<<>>)
RawUserInside == Raw(<<"x", " ", "u", "s", "e", "r", ":">>)

TextAlphabet ==
    {RawUserHi, RawHumanIndented, RawClaudeBare, RawAssistantColon,
     RawNote, RawEmpty, RawUserInside}

TextInputs ==
    {File(l, 60, TRUE, TRUE) : l \in SeqsUpTo(TextAlphabet, MaxTextLines)}

TextInit ==
    /\ ScanInit /\ ExtractIdle
    /\ pfile \in TextInputs
    /\ ppc = "text" /\ applied = <<>> /\ pout = NoneParsed

TextNext == TextApplies

SpecText == TextInit /\ [][TextNext]_vars

----------------------------------------------------------------------------
(* The schema of _init_db as its clients meet it: single statements on     *)
(* the two source tables of the full-text indexes, each with the triggers  *)
(* the schema defines for it.  The database file is shared with every      *)
(* client that opens it; the triggers are all that ties an index to its    *)
(* table.                                                                  *)

MaxRows == 2

MessageTexts == {StrFix, StrHello}
PromptTexts == {"a", "b"}

StoreUnchanged ==
    UNCHANGED <<fs, statsFile, auxVars, pc, log_files, idx, processed,
                skipped, errors, scans, edits, clock, trace, lastDone,
                parseVars, extractVars>>

(* INSERT INTO messages (session_id, sequence, role, content)              *)
SqlInsertMessage(text) ==
    /\ StoreUnchanged
    /\ db.sqlite_sequence.messages < MaxRows
    /\ db' = InsertMessageRow(db, [id |-> 0, session_id |-> "a",
                                   sequence |-> Len(db.messages),
                                   role |-> "user", content |-> text])

(* UPDATE messages SET content = ? WHERE id = ?, then messages_au          *)
SqlUpdateMessage(i, text) ==
    /\ StoreUnchanged
    /\ i \in 1..Len(db.messages)
    /\ db.messages[i].content # text
    /\ LET old == db.messages[i]
           new == [old EXCEPT !.content = text]
       IN db' = MessagesAu([db EXCEPT !.messages[i] = new], old, new)

(* DELETE FROM messages WHERE id = ?, then messages_ad                     *)
SqlDeleteMessage(i) ==
    /\ StoreUnchanged
    /\ i \in 1..Len(db.messages)
    /\ LET old == db.messages[i] IN
       db' = MessagesAd(
                [db EXCEPT !.messages =
                    SelectSeq(@, LAMBDA r : r.id # old.id)], old)

(* INSERT INTO prompt_history (prompt, project_path, timestamp,            *)
(* timestamp_ms)                                                           *)
SqlInsertPrompt(text) ==
    /\ StoreUnchanged
    /\ db.sqlite_sequence.prompt_history < MaxRows
    /\ db' = InsertPromptRow(db, [id |-> 0, prompt |-> text,
                                  timestamp |-> IsoOfMs(1),
                                  timestamp_ms |-> 1])

(* UPDATE prompt_history SET prompt = ? WHERE id = ?                       *)
SqlUpdatePrompt(i, text) ==
    /\ StoreUnchanged
    /\ i \in 1..Len(db.prompt_history)
    /\ db.prompt_history[i].prompt # text
    /\ LET old == db.prompt_history[i]
           new == [old EXCEPT !.prompt = text]
       IN db' = PromptHistoryAu([db EXCEPT !.prompt_history[i] = new],
                                old, new)

(* DELETE FROM prompt_history WHERE id = ?                                 *)
SqlDeletePrompt(i) ==
    /\ StoreUnchanged
    /\ i \in 1..Len(db.prompt_history)
    /\ LET old == db.prompt_history[i] IN
       db' = PromptHistoryAd(
                [db EXCEPT !.prompt_history =
                    SelectSeq(@, LAMBDA r : r.id # old.id)], old)

StoreInit == Init

StoreNext ==
    \/ \E text \in MessageTexts : SqlInsertMessage(text)
    \/ \E i \in 1..MaxRows, text \in MessageTexts :
            SqlUpdateMessage(i, text)
    \/ \E i \in 1..MaxRows : SqlDeleteMessage(i)
    \/ \E text \in PromptTexts : SqlInsertPrompt(text)
    \/ \E i \in 1..MaxRows, text \in PromptTexts :
            SqlUpdatePrompt(i, text)
    \/ \E i \in 1..MaxRows : SqlDeletePrompt(i)

SpecStore == StoreInit /\ [][StoreNext]_vars

----------------------------------------------------------------------------
(* What the claims read off the history of a scan.                         *)

DbAfter(i) == IF i < Len(trace) THEN trace[i + 1].dbBefore ELSE db

CountersAfter(i) ==
    IF i < Len(trace) THEN trace[i + 1].before
    ELSE <<processed, skipped, errors>>

ScanEnded == pc = "idle" /\ lastDone.ended >= 1

----------------------------------------------------------------------------
(* C1: over a file set that does not change between scans, a second or     *)
(* later scan reports processed = 0 and errors = 0, and its skipped count  *)
(* is the number of files the earlier scans imported.  Stated here for the *)
(* file sets in which no two files hold the same bytes, no scan was cut    *)
(* short and no import raised: the filename stems are left free.           *)
DistinctContents ==
    \A p, q \in PathSet :
        (p # q /\ fs[p] # NoFile /\ fs[q] # NoFile)
        => FileHash(fs[p]) # FileHash(fs[q])

C1_SecondScanIdempotent ==
    (/\ ScanEnded
     /\ lastDone.ended >= 2
     /\ lastDone.clean
     /\ DistinctContents
     /\ edits = lastDone.editsAtFirst)
    => /\ processed = 0
       /\ errors = 0
       /\ skipped = Cardinality(lastDone.importedBefore)

(* C2: when _import_session raises, the committed store is the store       *)
(* before the call, errors grows by one and the scan goes on to the next   *)
(* file.                                                                   *)
C2_FailedImportLeavesStore ==
    \A i \in 1..Len(trace) :
        trace[i].outcome = "import_error"
        => /\ DbAfter(i) = trace[i].dbBefore
           /\ CountersAfter(i) = <<trace[i].before[1], trace[i].before[2],
                                   trace[i].before[3] + 1>>

(* C3: when a scan has ended, every candidate file of that scan has been   *)
(* examined, whatever happened to the files before it.                     *)
C3_EveryCandidateExamined ==
    ScanEnded
    => \A j \in 1..Len(log_files) :
         \E i \in 1..Len(trace) : trace[i].path = log_files[j]

(* C4: there is at most one sessions row per id; handling a file whose     *)
(* hash is already stored leaves the store as it was; after a successful   *)
(* import the row of the session's id holds the file's hash, the message   *)
(* count and the token totals of the ParsedSession.                        *)
C4_OneSessionRowPerId ==
    /\ \A r1, r2 \in db.sessions : r1.id = r2.id => r1 = r2
    /\ \A i \in 1..Len(trace) :
         LET e == trace[i]
             parsed == ParseClaudeCodeLog(e.file, e.path)
         IN /\ (/\ e.file.size >= MinFileSize
                /\ e.file.readable
                /\ \E r \in e.dbBefore.sessions :
                        r.file_hash = FileHash(e.file))
               => DbAfter(i) = e.dbBefore
            /\ e.outcome = "imported"
               => \E r \in DbAfter(i).sessions :
                    /\ r.id = parsed.session_id
                    /\ r.file_hash = FileHash(e.file)
                    /\ r.total_messages = Len(parsed.messages)
                    /\ r.total_tokens_in = parsed.tokens_in
                    /\ r.total_tokens_out = parsed.tokens_out

(* C4 witness: in one scan a file was skipped because its hash was stored  *)
(* and a later import replaced the row of an id that was stored with       *)
(* another hash.                                                           *)
C4_Witness ==
    \E i \in 1..Len(trace) :
        /\ trace[i].outcome = "imported"
        /\ \E r \in trace[i].dbBefore.sessions :
                /\ r.id = trace[i].path.stem
                /\ r.file_hash # FileHash(trace[i].file)
        /\ \E j \in 1..(i - 1) : trace[j].outcome = "skipped"

(* C5: a file whose parsing throws, or that yields no message in any of    *)
(* the three formats, raises the error counter by exactly one, and the     *)
(* scan goes on.                                                           *)
C5_ParseFailureCountsError ==
    \A i \in 1..Len(trace) :
        trace[i].outcome = "no_content"
        => CountersAfter(i) = <<trace[i].before[1], trace[i].before[2],
                                trace[i].before[3] + 1>>

(* C6: a conversation of one or more user/assistant messages parses to the *)
(* same sequence numbers and roles, in the same order, from its JSONL      *)
(* encoding as from its single-object JSON encoding.                       *)
MessageView(parsed) ==
    [i \in 1..Len(parsed.messages) |->
        <<parsed.messages[i].sequence, parsed.messages[i].role>>]

C6_FormatEquivalence ==
    \A conv \in Conversations :
        (ppc = "done" /\ pfile = File(JsonlEncoding(conv), 60, TRUE, TRUE))
        => MessageView(pout) =
             MessageView(ParseClaudeCodeLog(
                File(JsonEncoding(conv), 60, TRUE, TRUE), ParsePath))

(* C7: a tool_result block renders content of more than 500 characters as  *)
(* its first 500 characters and the ellipsis, and shorter content          *)
(* unchanged, for string content and for a list of text sub-blocks alike;  *)
(* a text block is never truncated.                                        *)
C7_Rendered(s) ==
    ToolResultPart(IF Len(s) > TruncateLen
                   THEN SubSeq(s, 1, TruncateLen) \o Ellipsis
                   ELSE s)

C7_TruncationLaw ==
    xpc = "done"
    => \A s \in TestStrings :
        /\ xin = ListContent(<<ToolResultBlock(StrContent(s))>>)
           => xout = C7_Rendered(s)
        /\ xin = ListContent(<<ToolResultBlock(ListContent(<<TextBlock(s)>>))>>)
           => xout = C7_Rendered(s)
        /\ xin = ListContent(<<TextBlock(s)>>) => xout = s

(* C8: usage_stats holds at most one row per (stat_date, model), and       *)
(* during a scan that read a valid snapshot that row carries the           *)
(* snapshot's token values and the updated_at of this run.                 *)
C8_OneRowPerDateAndModel ==
    /\ \A i, j \in 1..Len(db.usage_stats) :
         (/\ db.usage_stats[i].stat_date = db.usage_stats[j].stat_date
          /\ db.usage_stats[i].model = db.usage_stats[j].model)
         => i = j
    /\ (pc = "scan" /\ statsFile.present /\ statsFile.valid)
       => \A k \in 1..Len(statsFile.usage) :
            \E i \in 1..Len(db.usage_stats) :
                /\ db.usage_stats[i].stat_date = statsFile.date
                /\ db.usage_stats[i].model = statsFile.usage[k].model
                /\ db.usage_stats[i].input_tokens = statsFile.usage[k].inp
                /\ db.usage_stats[i].output_tokens = statsFile.usage[k].out
                /\ db.usage_stats[i].updated_at = clock

C10_WholeTextIsJson(file) == JsonLoads(file.lines).ok

C10_EveryLineIsJson(file) ==
    \A i \in 1..Len(file.lines) :
        file.lines[i] # Blank => JsonLoads(<<file.lines[i]>>).ok

C10_Expected(file) ==
    IF C10_WholeTextIsJson(file) THEN "json"
    ELSE IF C10_EveryLineIsJson(file) THEN "jsonl"
    ELSE "text"

C16_Occurs(kw, text) ==
    \E start \in 1..Len(text) :
        \A k \in 1..Len(kw) :
            /\ start + k - 1 <= Len(text)
            /\ text[start + k - 1] = kw[k]

C16_Fold(text) == [i \in 1..Len(text) |-> LowerChar(text[i])]

C16_Contents(parsed) ==
    [i \in 1..Len(parsed.messages) |-> parsed.messages[i].content]

C16_Concatenation(parsed) == Flatten(C16_Contents(parsed))

C16_JoinedBySpaces(parsed) ==
    LET c == C16_Contents(parsed) IN
    Flatten([i \in 1..Len(c) |->
                IF i < Len(c) THEN c[i] \o <<" ">> ELSE c[i]])

C16_ToolNames(parsed) ==
    {parsed.tool_calls[i].tool_name : i \in 1..Len(parsed.tool_calls)}
        \ {"null", ""}

C16_Expected(parsed, text) ==
    {ToolTag(n) : n \in C16_ToolNames(parsed)}
    \cup {PatternTag(g) :
            g \in {p.tag : p \in {q \in Patterns :
                        \E kw \in q.keywords : C16_Occurs(kw, C16_Fold(text))}}}

C16_Inserted == {r.tag : r \in db.session_tags}

C16_TagSet ==
    ppc = "tagged"
    => /\ C16_Inserted = C16_Expected(pout, C16_Concatenation(pout))
       /\ \A r \in db.session_tags :
            r.auto_generated = 1 /\ r.session_id = pout.session_id

(* C16 as amended: the keywords are looked for in the lower-cased text     *)
(* made of the message contents joined by single spaces.                   *)
C16_TagSetJoined ==
    ppc = "tagged"
    => /\ C16_Inserted = C16_Expected(pout, C16_JoinedBySpaces(pout))
       /\ \A r \in db.session_tags :
            r.auto_generated = 1 /\ r.session_id = pout.session_id
       /\ (pout.tool_calls = <<>>
            /\ \A p \in Patterns : \A kw \in p.keywords :
                    ~C16_Occurs(kw, C16_Fold(C16_JoinedBySpaces(pout))))
           => db.session_tags = {}

(* C16 witness: a session with a capitalised keyword, whose tool calls     *)
(* name Read twice, got exactly the tags debugging and tool:Read.          *)
C16_Witness ==
    /\ ppc = "tagged"
    /\ C16_Contents(pout) = <<StrFix>>
    /\ Len(pout.tool_calls) = 2
    /\ C16_Inserted = {ToolTag("Read"), PatternTag("debugging")}

(* C17: for a file that _normalize_jsonl_log turns into a ParsedSession,   *)
(* started_at is the timestamp of the first line that carries a non-null   *)
(* timestamp and ended_at that of the last such line; when no line carries *)
(* one, both are the file's modification time.                             *)
C17_Lines == NonBlank(StripSplit(pfile.lines))

C17_Stamped(carries(_)) ==
    {i \in 1..Len(C17_Lines) : carries(EntryTs(C17_Lines[i].v))}

C17_Min(S) == CHOOSE i \in S : \A j \in S : i <= j
C17_Max(S) == CHOOSE i \in S : \A j \in S : i >= j

C17_NormalizedJsonl == ppc = "done" /\ applied = <<"jsonl">> /\ pout.ok

C17_Law(carries(_)) ==
    C17_NormalizedJsonl
    => LET S == C17_Stamped(carries) IN
       IF S = {}
       THEN pout.started_at = FileMtime(ParsePath)
            /\ pout.ended_at = FileMtime(ParsePath)
       ELSE pout.started_at = EntryTs(C17_Lines[C17_Min(S)].v)
            /\ pout.ended_at = EntryTs(C17_Lines[C17_Max(S)].v)

C17_NonNull(t) == t # "null"

C17_FirstAndLastTimestamp == C17_Law(C17_NonNull)

(* C17 as amended: a line counts when its timestamp is neither null nor    *)
(* empty.                                                                  *)
C17_NonEmpty(t) == t # "null" /\ t # ""

C17_FirstAndLastNonEmpty == C17_Law(C17_NonEmpty)

(* C17 witness: a line without timestamp, then lines stamped t1 and t2.    *)
C17_Witness ==
    /\ C17_NormalizedJsonl
    /\ pfile.lines = <<LineLegacyUser, LineUserT1, LineAssistantT2>>
    /\ pout.started_at = "t1" /\ pout.ended_at = "t2"

(* C18: for such a file, token_usage holds one record per entry of type    *)
(* assistant with a non-empty usage object, tool_calls one record per      *)
(* tool_use block of an entry of type assistant, each with the sequence    *)
(* number of that entry's message, and tokens_in and tokens_out are the    *)
(* sums of input_tokens and output_tokens over token_usage.                *)
C18_IsMessage(e) ==
    e.type \in {"user", "assistant", "message"} \/ e.role # "absent"

C18_SequenceOf(i) ==
    Cardinality({j \in 1..(i - 1) : C18_IsMessage(C17_Lines[j].v)})

C18_UsageLines ==
    {i \in 1..Len(C17_Lines) :
        C17_Lines[i].v.type = "assistant" /\ C17_Lines[i].v.usage.present}

C18_ToolBlocks ==
    {<<i, j>> \in (1..Len(C17_Lines)) \X (1..MaxLines) :
        /\ C17_Lines[i].v.type = "assistant"
        /\ j <= Len(C17_Lines[i].v.tools)}

(* The entries that add a tool call of their own: type tool_call, taken   *)
(* by neither message branch.                                              *)
C18_ToolCallEntries ==
    {i \in 1..Len(C17_Lines) :
        C17_Lines[i].v.type = "tool_call" /\ ~C18_IsMessage(C17_Lines[i].v)}

RECURSIVE C18_Sum(_, _)
C18_Sum(records, field) ==
    IF records = <<>> THEN 0
    ELSE Head(records)[field] + C18_Sum(Tail(records), field)

C18_UsageAndToolCalls ==
    C17_NormalizedJsonl
    => /\ Len(pout.token_usage) = Cardinality(C18_UsageLines)
       /\ \A i \in C18_UsageLines :
            \E k \in 1..Len(pout.token_usage) :
                /\ pout.token_usage[k].message_sequence = C18_SequenceOf(i)
                /\ pout.token_usage[k].input_tokens = C17_Lines[i].v.usage.inp
                /\ pout.token_usage[k].output_tokens = C17_Lines[i].v.usage.out
                /\ pout.messages[C18_SequenceOf(i) + 1].role = "assistant"
       /\ Len(pout.tool_calls) =
            Cardinality(C18_ToolBlocks) + Cardinality(C18_ToolCallEntries)
       /\ \A b \in C18_ToolBlocks :
            Cardinality({k \in 1..Len(pout.tool_calls) :
                /\ pout.tool_calls[k].message_sequence = C18_SequenceOf(b[1])
                /\ pout.tool_calls[k].tool_name = C17_Lines[b[1]].v.tools[b[2]]})
            >= 1
       /\ pout.tokens_in = C18_Sum(pout.token_usage, "input_tokens")
       /\ pout.tokens_out = C18_Sum(pout.token_usage, "output_tokens")

(* C18 witness: a user line and two assistant lines, each with a usage of  *)
(* 100 in / 50 out and one tool_use block named Read.                      *)
C18_Witness ==
    /\ C17_NormalizedJsonl
    /\ pfile.lines = <<LineUser, LineAssistantT2, LineAssistantT2>>
    /\ Len(pout.token_usage) = 2 /\ Len(pout.tool_calls) = 2
    /\ pout.tokens_in = 200 /\ pout.tokens_out = 100
    /\ pout.tool_calls[2].message_sequence = 2

(* C11: a run of _import_prompt_history stores exactly the entries of      *)
(* history.jsonl whose timestamp is greater than the largest timestamp_ms  *)
(* stored before the run, in file order; a run over the file that the run  *)
(* before it read to its end stores nothing.                               *)
C11_Watermark(d) ==
    LET S == {d.prompt_history[i].timestamp_ms :
                i \in 1..Len(d.prompt_history)} \cup {0}
    IN CHOOSE m \in S : \A x \in S : x <= m

C11_Stored(rows) ==
    [i \in 1..Len(rows) |-> <<rows[i].prompt, rows[i].timestamp_ms>>]

C11_Inserted ==
    C11_Stored(SubSeq(aux.afterHistory.prompt_history,
                      Len(aux.before.prompt_history) + 1,
                      Len(aux.afterHistory.prompt_history)))

C11_Newer ==
    LET w == C11_Watermark(aux.before)
        new == SelectSeq(aux.history.lines,
                         LAMBDA l : l.k = "entry" /\ l.ts > w)
    IN [i \in 1..Len(new) |-> <<new[i].display, new[i].ts>>]

C11_WatermarkImport ==
    (aux.started /\ aux.history.present)
    => /\ C11_Inserted = C11_Newer
       /\ (aux.prevStarted /\ aux.prevRaised = "none"
            /\ aux.prevHistory = aux.history)
           => C11_Inserted = <<>>

(* C12: plans holds at most one row per name; a scan leaves the row of a   *)
(* plan alone when the file's hash is the stored hash of that name; after  *)
(* a scan that ran the plans importer, the row of every plan file that is  *)
(* readable text holds the hash, content and title of that file.           *)
C12_RowOf(d, name) == {r \in d.plans : r.name = name}

C12_OneRowPerPlan ==
    /\ \A r1, r2 \in db.plans : r1.name = r2.name => r1 = r2
    /\ (aux.started /\ "plans" \in aux.ran)
       => \A n \in PlanNames :
            LET file == aux.plans[n] IN
            /\ (/\ file.present
                /\ \E r \in C12_RowOf(aux.afterStats, n) :
                        r.file_hash = PlanHash(file))
               => C12_RowOf(aux.afterPlans, n) = C12_RowOf(aux.afterStats, n)
            /\ (file.present /\ file.utf8)
               => \E r \in C12_RowOf(aux.afterPlans, n) :
                    /\ r.file_hash = PlanHash(file)
                    /\ r.content = file.content
                    /\ r.title = IF file.heading = "none" THEN n
                                  ELSE file.heading

(* C13: once session_todos holds a row of a session id, no step changes    *)
(* the rows of that session id, whatever the todo files hold; and every    *)
(* row a run inserts is a dict item of a non-empty list in a file whose    *)
(* stem starts with the row's session id, at the item's index.             *)
C13_Rows(d, sid) ==
    SelectSeq(d.session_todos, LAMBDA r : r.session_id = sid)

C13_Sessions == {"s1", "s2", "k", "z"}

C13_Frozen ==
    \A sid \in C13_Sessions :
        C13_Rows(db, sid) # <<>> => C13_Rows(db', sid) = C13_Rows(db, sid)

C13_FromFile(r) ==
    \E st \in TodoStems :
        LET todo == aux.todos[st] IN
        /\ st[1] = r.session_id
        /\ todo.present /\ todo.valid
        /\ r.sequence + 1 <= Len(todo.items)
        /\ todo.items[r.sequence + 1].kind = "dict"
        /\ TodoContent(todo.items[r.sequence + 1]) = r.content
        /\ TodoStatus(todo.items[r.sequence + 1]) = r.status

C13_InsertedRows ==
    \A i \in (Len(aux.afterPlans.session_todos) + 1)
                ..Len(aux.afterTodos.session_todos) :
        C13_FromFile(aux.afterTodos.session_todos[i])

C14_AuxFailureIsolated ==
    aux.started
    => /\ aux.raised = "none"
       /\ aux.ran = {"history", "stats", "plans", "todos", "sessions"}
       /\ aux.history.present => C11_Inserted = C11_Newer
       /\ \A n \in PlanNames :
            (aux.plans[n].present /\ aux.plans[n].utf8)
            => \E r \in C12_RowOf(aux.afterPlans, n) :
                    r.file_hash = PlanHash(aux.plans[n])


(***************************************************************************)
(* C20.  The message rows of one session carry strictly increasing         *)
(* sequence numbers in insertion order, so no two rows of one session      *)
(* share a sequence number, after any sequence of scans, re-imports of a   *)
(* changed file included.                                                  *)
(***************************************************************************)
C20_SequencesIncrease ==
    \A i \in 1..Len(db.messages) : \A j \in 1..Len(db.messages) :
        (i < j /\ db.messages[i].session_id = db.messages[j].session_id)
            => db.messages[i].sequence < db.messages[j].sequence


(***************************************************************************)
(* C15.  In every committed store state the messages index holds exactly   *)
(* one entry per messages row, with that row's content, and the            *)
(* prompt_history index exactly one entry per prompt_history row, with     *)
(* that row's prompt, after any insert, update or delete of a source row.  *)
(***************************************************************************)
C15_Entries(index) == {index[i] : i \in 1..Len(index)}

C15_Mirrors(index, rows, Field(_)) ==
    /\ Len(index) = Len(rows)
    /\ C15_Entries(index) =
          {[rowid |-> rows[i].id, text |-> Field(rows[i])] : i \in 1..Len(rows)}

C15_MessageText(r) == r.content
C15_PromptText(r) == r.prompt

C15_IndexesMirrorRows ==
    /\ C15_Mirrors(db.messages_fts, db.messages, C15_MessageText)
    /\ C15_Mirrors(db.prompt_history_fts, db.prompt_history, C15_PromptText)


(***************************************************************************)
(* C19.  An exception that escapes process_all is caught in main: the      *)
(* process does not terminate, it sleeps and starts the next scan.  After  *)
(* every scan, ended normally or by an exception, the next scan            *)
(* eventually starts (up to MaxScans scans), every scan that started       *)
(* ends, and a scan starts only when the one before it has ended.          *)
(***************************************************************************)
C19_Alive == pc \in {"idle", "scan"}

C19_NextScanStarts ==
    \A k \in 1..(MaxScans - 1) :
        (pc = "idle" /\ scans = k /\ lastDone.ended = k) ~> (scans = k + 1)

C19_ScanEnds ==
    \A k \in 1..MaxScans : (scans = k) ~> (lastDone.ended = k /\ pc = "idle")

C19_OneAtATime ==
    [][scans' # scans =>
        (pc = "idle" /\ lastDone.ended = scans /\ scans' = scans + 1)]_vars

C19_MainLoopSurvives ==
    /\ []C19_Alive
    /\ C19_NextScanStarts
    /\ C19_ScanEnds
    /\ C19_OneAtATime

C19_Witness ==
    /\ lastDone.aborted /\ lastDone.ended = 1
    /\ scans = 2 /\ pc = "scan"


(***************************************************************************)
(* C21.  In the JSONL normalizer the i-th emitted message (0-based) has    *)
(* sequence i, whatever blank and non-message lines stand between, and     *)
(* every entry whose type is tool_call yields exactly one ToolCall, whose  *)
(* message_sequence is the sequence of the message most recently emitted   *)
(* before that entry.                                                      *)
(***************************************************************************)
C21_Typed == {i \in 1..Len(C17_Lines) : C17_Lines[i].v.type = "tool_call"}

(* The tool calls the lines before line i add, when every entry in Calling *)
(* adds one of its own.                                                    *)
C21_CallsBefore(i, Calling) ==
    Cardinality({b \in C18_ToolBlocks : b[1] < i})
    + Cardinality({j \in Calling : j < i})

C21_Contiguous ==
    \A k \in 1..Len(pout.messages) : pout.messages[k].sequence = k - 1

C21_Attached(Calling, Target(_)) ==
    /\ Len(pout.tool_calls) = C21_CallsBefore(Len(C17_Lines) + 1, Calling)
    /\ \A i \in Calling :
         LET k == C21_CallsBefore(i, Calling) + 1 IN
         /\ k <= Len(pout.tool_calls)
         /\ pout.tool_calls[k].tool_name = C17_Lines[i].v.name
         /\ pout.tool_calls[k].message_sequence = Target(i)

(* The sequence of the message most recently emitted before line i: there  *)
(* is one, and it is the last of the messages emitted so far.              *)
C21_LastEmitted(i) ==
    IF C18_SequenceOf(i) >= 1 THEN C18_SequenceOf(i) - 1 ELSE 0 - 2

C21_SequenceAndToolCalls ==
    C17_NormalizedJsonl
    => C21_Contiguous /\ C21_Attached(C21_Typed, C21_LastEmitted)

(* C21 as the code has it: an entry of type tool_call that carries no      *)
(* role key yields exactly one ToolCall, whose message_sequence is the     *)
(* number of messages emitted before it minus one, which is -1 when no     *)
(* message precedes it; a tool_call entry with a role key is a message.    *)
C21_CountMinusOne(i) == C18_SequenceOf(i) - 1

C21_SequenceAndBareToolCalls ==
    C17_NormalizedJsonl
    => C21_Contiguous /\ C21_Attached(C18_ToolCallEntries, C21_CountMinusOne)

(* C21 witness: a message, a blank line, then a tool_call entry, which is  *)
(* attached to message 0.                                                  *)
C21_Witness ==
    /\ ppc = "done" /\ applied = <<"jsonl">>
    /\ pfile.lines = <<LineUserT1, Blank, LineToolCall>>
    /\ pout.tool_calls = <<[message_sequence |-> 0, tool_name |-> "Bash"]>>


(***************************************************************************)
(* C22.  When _import_todos imports a list of n items for a session that   *)
(* has no todo rows, it inserts exactly n rows, the k-th item (0-based)    *)
(* with sequence k in list order; an item that lacks a field or is         *)
(* malformed is stored with a stringified or default value, neither        *)
(* dropped nor failing the file.                                           *)
(***************************************************************************)
C22_Importable(todo) == todo.present /\ todo.valid /\ todo.items # <<>>

(* The files of the scan that the importer takes for a session without     *)
(* rows: for each session id the first importable file in glob order.      *)
C22_Taken ==
    {i \in 1..Len(TodoOrder) :
        /\ C22_Importable(aux.todos[TodoOrder[i]])
        /\ C13_Rows(aux.afterPlans, SessionIdOf(TodoOrder[i])) = <<>>
        /\ \A h \in 1..(i - 1) :
              SessionIdOf(TodoOrder[h]) = SessionIdOf(TodoOrder[i])
                  => ~C22_Importable(aux.todos[TodoOrder[h]])}

C22_WellFormed(item) == item.kind = "dict"

C22_OneRowPerItem ==
    (aux.started /\ "todos" \in aux.ran)
    => \A i \in C22_Taken :
         LET items == aux.todos[TodoOrder[i]].items
             rows == C13_Rows(aux.afterTodos, SessionIdOf(TodoOrder[i]))
         IN /\ Len(rows) = Len(items)
            /\ \A k \in 1..Len(rows) :
                 /\ rows[k].sequence = k - 1
                 /\ C22_WellFormed(items[k])
                       => /\ rows[k].content = TodoContent(items[k])
                          /\ rows[k].status = TodoStatus(items[k])


(***************************************************************************)
(* C23.  The TEXT normalizer emits exactly one message per marker line     *)
(* (human:/user: gives user, assistant:/claude: gives assistant, matched   *)
(* case-insensitively after trimming), in marker order, with sequences     *)
(* 0..n-1 and null timestamps; a message's content is the marker line's    *)
(* remainder after the first colon followed by the non-marker lines up to  *)
(* the next marker; lines before the first marker give no message and a    *)
(* transcript without markers gives none.                                  *)
(***************************************************************************)
C23_Line(i) == LineChars(pfile.lines[i])

C23_Prefixes ==
    [user |-> {<<"h", "u", "m", "a", "n", ":">>, <<"u", "s", "e", "r", ":">>},
     assistant |-> {<<"a", "s", "s", "i", "s", "t", "a", "n", "t", ":">>,
                    <<"c", "l", "a", "u", "d", "e", ":">>}]

C23_Trimmed(s) ==
    LET inked == {i \in 1..Len(s) : s[i] \notin Whitespace} IN
    IF inked = {} THEN <<>>
    ELSE SubSeq(s, CHOOSE i \in inked : \A j \in inked : i <= j,
                   CHOOSE i \in inked : \A j \in inked : i >= j)

C23_Begins(i, role) ==
    \E p \in C23_Prefixes[role] :
        LET t == C23_Trimmed(C23_Line(i)) IN
        /\ Len(t) >= Len(p)
        /\ \A k \in 1..Len(p) : LowerChar(t[k]) = p[k]

C23_IsMarker(i) == C23_Begins(i, "user") \/ C23_Begins(i, "assistant")

C23_Markers == {i \in 1..Len(pfile.lines) : C23_IsMarker(i)}

(* The n-th marker line, and the line where its message ends.              *)
C23_Nth(n) ==
    CHOOSE i \in C23_Markers :
        Cardinality({j \in C23_Markers : j < i}) = n - 1

C23_Until(i) ==
    IF \E j \in C23_Markers : j > i
    THEN (CHOOSE j \in C23_Markers :
            j > i /\ \A h \in C23_Markers : h > i => j <= h) - 1
    ELSE Len(pfile.lines)

C23_Remainder(i) ==
    LET line == C23_Line(i)
        colon == CHOOSE c \in 1..Len(line) :
                    line[c] = ":" /\ \A h \in 1..(c - 1) : line[h] # ":"
    IN [k \in 1..(Len(line) - colon) |-> line[colon + k]]

C23_Verbatim(i) ==
    JoinLines(<<C23_Remainder(i)>> \o
              [k \in 1..(C23_Until(i) - i) |-> C23_Line(i + k)])

C23_Normalized == ppc = "done" /\ applied = <<"text">> /\ pout.ok

C23_Law(Content(_)) ==
    C23_Normalized
    => /\ Len(pout.messages) = Cardinality(C23_Markers)
       /\ \A n \in 1..Len(pout.messages) :
            LET msg == pout.messages[n]
                i == C23_Nth(n)
            IN /\ msg.sequence = n - 1
               /\ msg.timestamp = "null"
               /\ msg.role = (IF C23_Begins(i, "user") THEN "user"
                              ELSE "assistant")
               /\ msg.content = Content(i)

C23_OneMessagePerMarker == C23_Law(C23_Verbatim)

(* C23 as the code has it: the content is that text, joined by newlines,   *)
(* with its leading and trailing whitespace removed.                       *)
C23_Stripped(i) == C23_Trimmed(C23_Verbatim(i))

C23_OneStrippedMessagePerMarker == C23_Law(C23_Stripped)

(* C23 witness: a note before the first marker, an indented upper-case     *)
(* marker and a marker followed by nothing: two messages.                  *)
C23_Witness ==
    /\ C23_Normalized
    /\ pfile.lines = <<RawNote, RawHumanIndented, RawClaudeBare>>
    /\ Len(pout.messages) = 2
    /\ pout.messages[1].content = <<"x">>
    /\ pout.messages[2].role = "assistant"


(***************************************************************************)
(* C24.  The file_hash stored on a session row is the hash of exactly the  *)
(* bytes that were normalized into that import's messages, also when a     *)
(* writer appends to the file while process_all handles it: content        *)
(* appended during a scan is not masked as already processed.              *)
(***************************************************************************)
C24_HashOfParsedBytes ==
    [][(ppc = "import" /\ ppc' = "off")
            => \A r \in db'.sessions \ db.sessions :
                    r.file_hash = FileHash(pfile)]_vars


(***************************************************************************)
(* C25.  After a scan that ran to its end over a fixed file set, every     *)
(* candidate file of at least 50 bytes that normalizes to one or more      *)
(* messages and whose import does not raise has a sessions row whose id is *)
(* the file's stem and whose file_hash is the file's hash, whatever other  *)
(* files are in the tree.                                                  *)
(***************************************************************************)
C25_Eligible(e) ==
    LET parsed == ParseClaudeCodeLog(e.file, e.path) IN
    /\ e.file.size >= MinFileSize
    /\ e.file.readable
    /\ Importable(parsed)
    /\ ~ImportSession(e.dbBefore, parsed, FileHash(e.file)).raised

C25_EveryFileHasItsRow ==
    (ScanEnded /\ ~lastDone.aborted)
    => \A i \in 1..Len(trace) :
         C25_Eligible(trace[i])
         => \E r \in db.sessions :
                /\ r.id = trace[i].path.stem
                /\ r.file_hash = FileHash(trace[i].file)


(***************************************************************************)
(* C26.  In every committed store state each sessions row's total_messages *)
(* is the number of messages rows that carry its session_id, also after    *)
(* scans between which session files grew or changed.                      *)
(***************************************************************************)
C26_RowsOf(id) == {i \in 1..Len(db.messages) : db.messages[i].session_id = id}

C26_TotalCountsRows ==
    \A r \in db.sessions : r.total_messages = Cardinality(C26_RowsOf(r.id))


(***************************************************************************)
(* C27.  After a successful _import_session the number of tool_calls rows  *)
(* added for the session is the number of tool calls in the ParsedSession, *)
(* and each added row's message_id is the messages row of the session      *)
(* whose sequence is the tool call's message_sequence: no parsed tool call *)
(* is dropped and none is inserted twice.                                  *)
(***************************************************************************)
C27_Added(i) ==
    SubSeq(DbAfter(i).tool_calls, Len(trace[i].dbBefore.tool_calls) + 1,
           Len(DbAfter(i).tool_calls))

C27_NewMessages(i) ==
    SubSeq(DbAfter(i).messages, Len(trace[i].dbBefore.messages) + 1,
           Len(DbAfter(i).messages))

C27_EveryToolCallLinked ==
    \A i \in 1..Len(trace) :
        LET e == trace[i]
            parsed == ParseClaudeCodeLog(e.file, e.path)
            added == C27_Added(i)
            msgs == C27_NewMessages(i)
        IN e.outcome = "imported"
           => /\ Len(added) = Len(parsed.tool_calls)
              /\ \A j \in 1..Len(added) :
                    \E m \in 1..Len(msgs) :
                        /\ msgs[m].id = added[j].message_id
                        /\ msgs[m].session_id = added[j].session_id
                        /\ msgs[m].sequence = added[j].sequence


(***************************************************************************)
(* C28.  Each todo file is imported all-or-nothing: after _import_todos    *)
(* commits, either every dict item of the file has a session_todos row or  *)
(* none has, also when inserting one of the items raises part-way through  *)
(* the list.                                                               *)
(***************************************************************************)
C28_DictItems(items) == {k \in 1..Len(items) : items[k].kind # "scalar"}

C28_Stored(rows) == {rows[j].sequence + 1 : j \in 1..Len(rows)}

C28_AllOrNothing ==
    (aux.started /\ "todos" \in aux.ran)
    => \A i \in C22_Taken :
         LET items == aux.todos[TodoOrder[i]].items
             rows == C13_Rows(aux.afterTodos, SessionIdOf(TodoOrder[i]))
         IN \/ C28_Stored(rows) = C28_DictItems(items)
            \/ C28_Stored(rows) = {}


C30_Entries ==
    {<<aux.history.lines[i].display, aux.history.lines[i].ts>> :
        i \in {j \in 1..Len(aux.history.lines) :
                /\ aux.history.lines[j].k = "entry"
                /\ aux.history.lines[j].ts > 0}}

C30_InFile(e) ==
    Cardinality({i \in 1..Len(aux.history.lines) :
                    /\ aux.history.lines[i].k = "entry"
                    /\ <<aux.history.lines[i].display,
                         aux.history.lines[i].ts>> = e})

C30_InStore(e) ==
    LET rows == C11_Stored(aux.afterHistory.prompt_history) IN
    Cardinality({i \in 1..Len(rows) : rows[i] = e})

C30_EveryEntryStoredOnce ==
    (aux.started /\ aux.history.present)
    => \A e \in C30_Entries : C30_InStore(e) = C30_InFile(e)

=============================================================================
